---- MODULE Spec2Model ----
(***************************************************************************)
(* Search for the best single-parity-check codes over GF(2^m): the field   *)
(* library, the parity and codeword enumerators, the neighbour tables and  *)
(* the Algorithm-H neighbour traversal of the search program.              *)
(*                                                                         *)
(* C arrays are modelled as functions on 0..len-1.  A cell that was        *)
(* allocated but never written is absent from the function's DOMAIN; a     *)
(* read of such a cell is a nondeterministic choice.                       *)
(***************************************************************************)
EXTENDS Integers, Sequences, FiniteSets, TLC

VARIABLES
  pc,          \* control location of the program (or of the loop under study)
  P,           \* polynomial handed to gf_init
  gf_size,     \* size_t gf_size
  gf_log,      \* int *gf_log
  gf_exp,      \* gf_elt *gf_exp
  gf_alpha,    \* gf_elt gf_alpha
  inst,        \* the program's inputs: m, n, qmax, constellation C, mapping pi
  Q,           \* quadrance table
  V,           \* neighbour table
  cqmin,       \* smallest quadrance between two distinct elements
  dcap,        \* cutoff table, dcap[w][j]
  h,           \* parity (exponents)
  x,           \* codeword
  da,          \* ranks of the neighbour under visit
  df,          \* focus pointers of Algorithm H
  dd,          \* directions of Algorithm H
  dw,          \* weight: number of non-zero ranks
  d,           \* part_000: neighbour ranks (the increments) of the current codeword
  dmax,        \* part_000: per coordinate, the first rank beyond reach
  Scur,        \* spectrum of the current parity
  Sbest,       \* best spectrum so far
  earlyAbort,  \* TRUE: the codeword loop has its sp_cmp test (the program as written)
  hs,          \* history: parities produced so far by chk_begin / chk_next
  xs,          \* history: codewords produced so far for the current parity
  visited,     \* history: rank vectors already visited for the current codeword
  nrec,        \* history: distinct (codeword, rank vector) pairs below qmax, this parity
  full,        \* history: spectrum of every parity whose coset was traversed completely
  complete,    \* history: the codeword loop of the current parity ran to its end
  reported,    \* history: the parities printed, in order
  ref,         \* history: outcome of the run without early abort
  cercles,     \* crible.c: cercles[x + q*r], the elements at quadrance r from x
  perims,      \* crible.c: perims[x + q*r], the number of these elements
  part,        \* crible.c: the partition of quad under evaluation
  idx,         \* crible.c: the indices into the circles of the coordinates of x
  mult,        \* crible.c: multiplicity found so far for the current parity
  bestmult,    \* crible.c: best multiplicity so far
  parts        \* history: the vectors part evaluated for the current parity

fieldVars == <<P, gf_size, gf_log, gf_exp, gf_alpha>>
tableVars == <<Q, V, cqmin, dcap>>
travVars  == <<da, df, dd, dw, d, dmax>>
histVars  == <<hs, xs, visited, nrec, full, complete, reported, ref>>
sieveVars == <<cercles, perims, part, idx, mult, bestmult, parts>>
vars == <<pc, fieldVars, inst, tableVars, h, x, travVars, Scur, Sbest, earlyAbort, histVars,
          sieveVars>>

(***************************************************************************)
(* Helpers for C arithmetic and arrays.                                    *)
(***************************************************************************)

\* a ^ b on unsigned values
RECURSIVE Xor(_, _)
Xor(a, b) ==
  IF a = 0 THEN b
  ELSE IF b = 0 THEN a
  ELSE (((a % 2) + (b % 2)) % 2) + (2 * Xor(a \div 2, b \div 2))

\* arr[k] = v, the cell becoming initialised
Store(arr, k, v) == [i \in (DOMAIN arr) \cup {k} |-> IF i = k THEN v ELSE arr[i]]

\* q^e
RECURSIVE Pow(_, _)
Pow(b, e) == IF e = 0 THEN 1 ELSE b * Pow(b, e - 1)

\* sum of the entries of an array
RECURSIVE SumTo(_, _)
SumTo(arr, len) == IF len = 0 THEN 0 ELSE arr[len - 1] + SumTo(arr, len - 1)

\* values an uninitialised unsigned cell may hold (a sample of them)
Indeterminate == {0, 1}

(***************************************************************************)
(* GF(2^m) library.                                                        *)
(***************************************************************************)

\* const unsigned primitives[] = {0x1, 0x3, 0x7, 0xb, 0x13, 0x25, 0x43, 0x89, 0x11d, 0x221, 0x409}
primitivesTab == <<1, 3, 7, 11, 19, 37, 67, 137, 285, 545, 1033>>
primitives == [m \in 0..10 |-> primitivesTab[m + 1]]

n_primitives == 10

gf_zero == 0

gf_one == 1

\* for (unsigned p = P; p > 0; p >>= 1) gf_size <<= 1;
RECURSIVE SizeLoop(_, _)
SizeLoop(p, size) == IF p > 0 THEN SizeLoop(p \div 2, size * 2) ELSE size

\* gf_size = 1; the loop; gf_size >>= 1
SizeOf(poly) == (SizeLoop(poly, 1)) \div 2

\* the turn with the two statements of the tables after the shift
FillStep_late(poly, size, st) ==
  LET sh == 2 * st.x
      nx == IF sh >= size THEN Xor(sh, poly) ELSE sh
  IN  [k   |-> st.k + 1,
       x   |-> nx,
       log |-> Store(st.log, nx, st.k),
       exp |-> Store(st.exp, st.k, st.x)]

\* one turn of the table loop:
\*   gf_log[x] = k; gf_exp[k] = x; x <<= 1; if (x >= gf_size) x ^= P;
FillStep(poly, size, st) ==
  LET sh == 2 * st.x
  IN  [k   |-> st.k + 1,
       x   |-> IF sh >= size THEN Xor(sh, poly) ELSE sh,
       log |-> Store(st.log, st.x, st.k),
       exp |-> Store(st.exp, st.k, st.x)]

\* gf_log[gf_zero] = -1; gf_elt x = gf_one; k = 0
FillStart == [k |-> 0, x |-> gf_one, log |-> (gf_zero :> -1), exp |-> <<>>]

\* for (size_t k = 0; k < gf_size_minus_1; k++) { ... }
RECURSIVE FillLoop(_, _, _)
FillLoop(poly, size, st) ==
  IF st.k < size - 1 THEN FillLoop(poly, size, FillStep(poly, size, st)) ELSE st

\* static int gf_init(unsigned P): size, tables, and ok = FALSE when it ends in error()
gf_init(poly) ==
  LET size == SizeOf(poly)
      r    == FillLoop(poly, size, FillStart)
  IN  [size |-> size, log |-> r.log, exp |-> r.exp, ok |-> (r.x = gf_one)]

\* gf_alpha = gf_exp[1]: the cell is written only when gf_size > 2
AlphaOf(exp) == IF 1 \in DOMAIN exp THEN {exp[1]} ELSE Indeterminate

gf_size_minus_1 == gf_size - 1

\* acc <- acc + alpha^hlog * x
gf_accmul(acc, hlog, xi) ==
  IF xi = gf_zero THEN acc
  ELSE Xor(acc, gf_exp[(hlog + gf_log[xi]) % gf_size_minus_1])


(***************************************************************************)
(* Parity enumerator.                                                      *)
(***************************************************************************)

\* static inline bool chk_valid(size_t n, gf_elt *h, gf_elt *x)
\* gf_elt acc = gf_zero; for (i = 0; i < n-1; ++i) gf_accmul(&acc, *h++, *x++);
RECURSIVE ChkAcc(_, _, _, _, _)
ChkAcc(n, hh, xx, i, acc) ==
  IF i < n - 1 THEN ChkAcc(n, hh, xx, i + 1, gf_accmul(acc, hh[i], xx[i])) ELSE acc

chk_valid(n, hh, xx) == ChkAcc(n, hh, xx, 0, gf_zero) = xx[n - 1]

\* static inline void chk_begin(size_t n, gf_elt *h)
chk_begin(n) == [i \in 0..(n - 1) |-> IF i < n - 1 THEN n - i - 1 ELSE 0]

\* the scan with the bound gf_size_minus_1 - i
RECURSIVE ChkScan_wide(_, _, _)
ChkScan_wide(n, hh, i) ==
  IF hh[i] >= gf_size_minus_1 - i
    THEN IF i + 3 > n THEN -1 ELSE ChkScan_wide(n, hh, i + 1)
    ELSE i

\* for (i = 0; h[i] >= gf_size_minus_1 - i - 1; ++i) if (i + 3 > n) return false;
\* the index the loop stops at, or -1 for "return false"
RECURSIVE ChkScan(_, _, _)
ChkScan(n, hh, i) ==
  IF hh[i] >= gf_size_minus_1 - i - 1
    THEN IF i + 3 > n THEN -1 ELSE ChkScan(n, hh, i + 1)
    ELSE i

\* for (h[i]++; i; i--) h[i-1] = h[i] + 1;
RECURSIVE ChkFill(_, _)
ChkFill(hh, i) ==
  IF i = 0 THEN hh ELSE ChkFill([hh EXCEPT ![i - 1] = hh[i] + 1], i - 1)

\* static inline bool chk_next(size_t n, gf_elt *h)
chk_next(n, hh) ==
  LET i == ChkScan(n, hh, 0)
  IN  IF i = -1 THEN [ok |-> FALSE, h |-> hh]
      ELSE [ok |-> TRUE, h |-> ChkFill([hh EXCEPT ![i] = hh[i] + 1], i)]

(***************************************************************************)
(* Codeword enumerator.                                                    *)
(***************************************************************************)

\* static inline void cw_begin(size_t n, gf_elt *h, gf_elt *x)
cw_begin(n) == [i \in 0..(n - 1) |-> gf_zero]

\* for (i = 0; i < n-1; ++i) if (x[i] == gf_size_minus_1) x[i] = gf_zero; else break;
RECURSIVE CwCarry(_, _, _)
CwCarry(n, xx, i) ==
  IF i < n - 1 /\ xx[i] = gf_size_minus_1
    THEN CwCarry(n, [xx EXCEPT ![i] = gf_zero], i + 1)
    ELSE [i |-> i, x |-> xx]

\* gf_elt acc = gf_zero; for (i = 0; i < n-1; ++i) gf_accmul(&acc, h[i], x[i]);
RECURSIVE CwLast(_, _, _, _, _)
CwLast(n, hh, xx, i, acc) ==
  IF i < n - 1 THEN CwLast(n, hh, xx, i + 1, gf_accmul(acc, hh[i], xx[i])) ELSE acc

\* cw_next without x[n-1] = acc
cw_next_stale(n, hh, xx) ==
  LET c  == CwCarry(n, xx, 0)
  IN  IF c.i = n - 1 THEN [ok |-> FALSE, x |-> c.x]
      ELSE [ok |-> TRUE, x |-> [c.x EXCEPT ![c.i] = c.x[c.i] + 1]]

\* cw_next giving up one coordinate early
cw_next_short(n, hh, xx) ==
  LET c  == CwCarry(n, xx, 0)
      x1 == [c.x EXCEPT ![c.i] = c.x[c.i] + 1]
  IN  IF c.i >= n - 2 THEN [ok |-> FALSE, x |-> c.x]
      ELSE [ok |-> TRUE, x |-> [x1 EXCEPT ![n - 1] = CwLast(n, hh, x1, 0, gf_zero)]]

\* static inline bool cw_next(size_t n, gf_elt *h, gf_elt *x)
cw_next(n, hh, xx) ==
  LET c  == CwCarry(n, xx, 0)
      x1 == [c.x EXCEPT ![c.i] = c.x[c.i] + 1]
  IN  IF c.i = n - 1 THEN [ok |-> FALSE, x |-> c.x]
      ELSE [ok |-> TRUE, x |-> [x1 EXCEPT ![n - 1] = CwLast(n, hh, x1, 0, gf_zero)]]


(***************************************************************************)
(* Constellation, quadrances, neighbours and cutoffs (main, lines 307-418). *)
(* The C code keeps Q, V and dcap flat (Q[i*q + j]); here they are         *)
(* Q[i][j], V[i][j] and dcap[w][j].                                        *)
(***************************************************************************)

\* a literal list as a C array
Arr(seq) == [i \in 0..(Len(seq) - 1) |-> seq[i + 1]]

\* q = 0; m = 0; while (2 == fscanf(...)) if (++q == (1 << m)) realloc(1 << ++m);
\* taken from one realloc to the next: the points read in between leave m alone, and
\* q reaches 1 << m exactly when the file has that many points
RECURSIVE ReadLoop(_, _, _)
ReadLoop(npoints, qq, m) ==
  IF Pow(2, m) <= npoints
    THEN ReadLoop(npoints, Pow(2, m), m + 1)
    ELSE m

\* ... m--;
ReadM(npoints) == ReadLoop(npoints, 0, 0) - 1

\* Q[i*q + j] = dx*dx + dy*dy between the points pi[i] and pi[j]
BuildQ(C, pi, q) ==
  [i \in 0..(q - 1) |-> [j \in 0..(q - 1) |->
     LET dx == C[pi[i]][1] - C[pi[j]][1]
         dy == C[pi[i]][2] - C[pi[j]][2]
     IN  (dx * dx) + (dy * dy)]]

\* for (k = j+1; k < q; ++k) if (Qi[Vi[k]] < Qi[Vi[j]]) swap(Vi[j], Vi[k])
RECURSIVE SortInner(_, _, _, _, _)
SortInner(Vi, Qi, j, k, q) ==
  IF k < q
    THEN SortInner(IF Qi[Vi[k]] < Qi[Vi[j]]
                     THEN [Vi EXCEPT ![j] = Vi[k], ![k] = Vi[j]]
                     ELSE Vi,
                   Qi, j, k + 1, q)
    ELSE Vi

\* for (j = 0; j < q; ++j) ...
RECURSIVE SortOuter(_, _, _, _)
SortOuter(Vi, Qi, j, q) ==
  IF j < q THEN SortOuter(SortInner(Vi, Qi, j, j + 1, q), Qi, j + 1, q) ELSE Vi

\* V[i*q + j]: the j-th closest element to i
BuildV(Qt, q) == [i \in 0..(q - 1) |-> SortOuter([j \in 0..(q - 1) |-> j], Qt[i], 0, q)]

\* unsigned cqmin = Q[1]; for (i = 1; i < q; ++i) if (cqmin > Q[i*q + V[i*q + 1]]) cqmin = ...
RECURSIVE CqminLoop(_, _, _, _, _)
CqminLoop(Qt, Vt, q, i, cur) ==
  IF i < q
    THEN CqminLoop(Qt, Vt, q, i + 1, IF cur > Qt[i][Vt[i][1]] THEN Qt[i][Vt[i][1]] ELSE cur)
    ELSE cur

\* the start value alone, without the loop over the rows
BuildCqmin_first(Qt, Vt, q) == Qt[0][1]

BuildCqmin(Qt, Vt, q) == CqminLoop(Qt, Vt, q, 1, Qt[0][1])

\* the test with the factor w-1 at every weight
Exceeds_plain(qv, qm, w, cq) ==
  LET budget == qm - ((w - 1) * cq)
  IN  IF budget < 0 THEN FALSE ELSE qv > budget

\* the test with the factor 2 at every weight
Exceeds_twice(qv, qm, w, cq) ==
  LET budget == qm - (2 * cq)
  IN  IF budget < 0 THEN FALSE ELSE qv > budget

\* Q[...] > qmax - (w > 2 ? w-1 : 1) * cqmin, computed in size_t: when the product
\* exceeds qmax the difference wraps to a value above every unsigned quadrance
Exceeds(qv, qm, w, cq) ==
  LET budget == qm - ((IF w > 2 THEN w - 1 ELSE 1) * cq)
  IN  IF budget < 0 THEN FALSE ELSE qv > budget

\* for (d = 0; d < q; ++d) if (...) break;
RECURSIVE DcapScan(_, _, _, _, _, _, _, _)
DcapScan(Qt, Vt, q, qm, cq, w, j, rank) ==
  IF rank < q /\ ~Exceeds(Qt[j][Vt[j][rank]], qm, w, cq)
    THEN DcapScan(Qt, Vt, q, qm, cq, w, j, rank + 1)
    ELSE rank

\* dcap[w*q + j]
BuildDcap(Qt, Vt, q, n, qm, cq) ==
  [w \in 0..(n - 1) |-> [j \in 0..(q - 1) |-> DcapScan(Qt, Vt, q, qm, cq, w, j, 0)]]

(***************************************************************************)
(* Spectra.                                                                *)
(***************************************************************************)

\* UINT_MAX, the initial entries of Sbest.  TLC's integers stop at 2^31 - 1;
\* that value stands for UINT_MAX, far above every count the model reaches.
UINT_MAX == 2147483647

\* static inline int sp_cmp(unsigned long *a, unsigned long *b, unsigned qmax)
RECURSIVE SpCmpFrom(_, _, _, _)
SpCmpFrom(a, b, qm, i) ==
  IF i < qm
    THEN IF a[i] = b[i] THEN SpCmpFrom(a, b, qm, i + 1)
         ELSE IF b[i] > a[i] THEN 1 ELSE -1
    ELSE 0

sp_cmp(a, b, qm) == SpCmpFrom(a, b, qm, 2)

\* the loop test with < in place of <=
ContinueCoset_strict(ok, abortOn, sb, sc, qm) == ok /\ (abortOn => sp_cmp(sb, sc, qm) < 0)

\* ... while (cw_next(n, h, x) && sp_cmp(Sbest, Scur, qmax) <= 0)   (line 516)
\* abortOn = FALSE is the loop without its sp_cmp test
ContinueCoset(ok, abortOn, sb, sc, qm) == ok /\ (abortOn => sp_cmp(sb, sc, qm) <= 0)

\* the acceptance test turned round
KeepSpectrum_worse(sb, sc, qm) == sp_cmp(sb, sc, qm) >= 0

\* if (sp_cmp(Sbest, Scur, qmax) <= 0)   (line 534)
KeepSpectrum(sb, sc, qm) == sp_cmp(sb, sc, qm) <= 0

(***************************************************************************)
(* Neighbour traversal (Algorithm H with the dcap cutoffs).                *)
(***************************************************************************)

\* for (i = 0; i < n-1; ++i) { y[i] = V[x[i]*q + da[i]]; quad += Q[x[i]*q + y[i]];
\*                             gf_accmul(y+n-1, h[i], y[i]); }
\* quad += Q[x[n-1]*q + y[n-1]];
\* from turn i on, with the sum quad and the coordinate y[n-1] = ylast so far
RECURSIVE QuadLoop(_, _, _, _, _, _, _)
QuadLoop(n, hh, xx, rr, i, quad, ylast) ==
  IF i < n - 1
    THEN QuadLoop(n, hh, xx, rr, i + 1,
                  quad + Q[xx[i]][V[xx[i]][rr[i]]],
                  gf_accmul(ylast, hh[i], V[xx[i]][rr[i]]))
    ELSE quad + Q[xx[n - 1]][ylast]

\* the quadrance with the last coordinate of y accumulated from x[n-1], not from gf_zero
Quadrance_stale(n, hh, xx, rr) == QuadLoop(n, hh, xx, rr, 0, 0, xx[n - 1])

\* lines 478-485: the quadrance between x and its neighbour at ranks rr
Quadrance(n, hh, xx, rr) == QuadLoop(n, hh, xx, rr, 0, 0, gf_zero)

\* if (quad < qmax) Scur[quad]++;
Record(sc, quad, qm) == IF quad < qm THEN [sc EXCEPT ![quad] = @ + 1] ELSE sc

\* for (j = 0; j < n-1; ++j) { da[j] = 0; df[j] = j; dd[j] = 1; } df[n-1] = n-1; dw = 0;
TravInit(n) ==
  [da |-> [j \in 0..(n - 2) |-> 0],
   df |-> [j \in 0..(n - 1) |-> j],
   dd |-> [j \in 0..(n - 2) |-> 1],
   dw |-> 0]

\* the test without da[j] == 0
AtBoundary_open(q, rank, dir, cap) == rank = q - 1 \/ rank + dir >= cap

\* if (da[j] == 0 || da[j] == q-1 || da[j] + dd[j] >= dcap[dw*q + x[j]])
\* (the sum is a size_t; it wraps only when da[j] = 0, which the first test catches)
AtBoundary(q, rank, dir, cap) == rank = 0 \/ rank = q - 1 \/ rank + dir >= cap

\* the step without the hand-over of the focus (df[j] = df[j+1]; df[j+1] = j+1)
HStep_stuck(q, xx, st, j) ==
  LET df0  == [st.df EXCEPT ![0] = 0]
      w1   == IF st.da[j] = 0 THEN st.dw + 1 ELSE st.dw
      rank == st.da[j] + st.dd[j]
      w2   == IF rank = 0 THEN w1 - 1 ELSE w1
      turn == AtBoundary(q, rank, st.dd[j], dcap[w2][xx[j]])
  IN  [da |-> [st.da EXCEPT ![j] = rank],
       dw |-> w2,
       dd |-> IF turn THEN [st.dd EXCEPT ![j] = -st.dd[j]] ELSE st.dd,
       df |-> df0]

\* lines 499-512 with j = df[0] /= n-1: the step to the next neighbour
HStep(q, xx, st, j) ==
  LET df0  == [st.df EXCEPT ![0] = 0]
      w1   == IF st.da[j] = 0 THEN st.dw + 1 ELSE st.dw
      rank == st.da[j] + st.dd[j]
      w2   == IF rank = 0 THEN w1 - 1 ELSE w1
      turn == AtBoundary(q, rank, st.dd[j], dcap[w2][xx[j]])
      df1  == [df0 EXCEPT ![j] = df0[j + 1]]
  IN  [da |-> [st.da EXCEPT ![j] = rank],
       dw |-> w2,
       dd |-> IF turn THEN [st.dd EXCEPT ![j] = -st.dd[j]] ELSE st.dd,
       df |-> IF turn THEN [df1 EXCEPT ![j + 1] = j + 1] ELSE df0]

(***************************************************************************)
(* The variant with several mappings (part_000): increments, spectra.      *)
(***************************************************************************)

\* unsigned cqmin = qmax; ... if (q > 0 && q < cqmin) cqmin = q;   (lines 482-492)
Cqmin000(Qt, q, qm) ==
  LET pos == {Qt[i][j] : i, j \in 0..(q - 1)} \ {0}
      low == {v \in pos : v < qm}
  IN  IF low = {} THEN qm ELSE CHOOSE v \in low : \A u \in low : v <= u

\* for (j = 0; j < q; ++j) if (Q[x[i]][V[x[i]][j]] > qmax - cqmin) { dmax[i] = j; break; }
RECURSIVE DmaxScan(_, _, _, _)
DmaxScan(xi, q, budget, j) ==
  IF j < q /\ ~(Q[xi][V[xi][j]] > budget) THEN DmaxScan(xi, q, budget, j + 1) ELSE j

\* lines 543-550: the largest increment of every coordinate of x
Dmax000(n, q, xx, qm, cq) == [i \in 0..(n - 1) |-> DmaxScan(xx[i], q, qm - cq, 0)]

\* static inline void delta_begin(size_t n, size_t *dmax, size_t *d)
delta_begin(n) == [i \in 0..(n - 1) |-> IF i = 0 THEN 1 ELSE 0]

\* for (i = 0; i < n-1; ++i) if (d[i] >= dmax[i]-1) d[i] = 0; else break;
\* (dmax[i]-1 is a size_t: it wraps when dmax[i] = 0 and then nothing reaches it)
RECURSIVE DeltaCarry(_, _, _, _)
DeltaCarry(n, dm, dv, i) ==
  IF i < n - 1 /\ dm[i] /= 0 /\ dv[i] >= dm[i] - 1
    THEN DeltaCarry(n, dm, [dv EXCEPT ![i] = 0], i + 1)
    ELSE [i |-> i, d |-> dv]

\* static inline bool delta_next(size_t n, size_t *dmax, size_t *d)
delta_next(n, dm, dv) ==
  LET c == DeltaCarry(n, dm, dv, 0)
  IN  IF c.i = n - 1 THEN [ok |-> FALSE, d |-> c.d]
      ELSE [ok |-> TRUE, d |-> [c.d EXCEPT ![c.i] = c.d[c.i] + 1]]

\* An unsigned long of 64 bits as four limbs of 16 bits, the lowest first: counts
\* beyond the 31 bits of the model's integers.
Limb == 65536

\* the unsigned long that holds the count v (0 <= v < 2^31)
WideOf(v) == <<v % Limb, v \div Limb, 0, 0>>

Widen(arr) == [i \in DOMAIN arr |-> WideOf(arr[i])]

\* (int)((long)b - (long)a): the low 32 bits of the difference, read as a signed int
\* (the conversions wrap, as gcc and clang define them)
IntOfLongDiff(bw, aw) ==
  LET d0 == bw[1] - aw[1]
      r0 == d0 % Limb
      d1 == (bw[2] - aw[2]) - (IF d0 < 0 THEN 1 ELSE 0)
      r1 == d1 % Limb
  IN  IF r1 >= Limb \div 2 THEN ((r1 - Limb) * Limb) + r0 ELSE (r1 * Limb) + r0

\* static inline int sp_cmp(unsigned long *a, unsigned long *b, unsigned qmax) of
\* part_000: from index 0 to qmax included, (int)((long)b[i] - (long)a[i])
RECURSIVE SpCmp000From(_, _, _, _)
SpCmp000From(a, b, qm, i) ==
  IF i <= qm
    THEN IF a[i] = b[i] THEN SpCmp000From(a, b, qm, i + 1) ELSE IntOfLongDiff(b[i], a[i])
    ELSE 0

\* sp_cmp of part_000 on arrays of unsigned long
sp_cmp_long(a, b, qm) == SpCmp000From(a, b, qm, 0)

\* sp_cmp of part_000 as main calls it, on the counts of the model's spectra
sp_cmp_000(a, b, qm) == sp_cmp_long(Widen(a), Widen(b), qm)

\* if (quad > qmax) continue; Scur[quad]++;   (lines 572-587)
Record000(sc, quad, qm) == IF quad > qm THEN sc ELSE [sc EXCEPT ![quad] = @ + 1]

\* if (sp_cmp(Sbest, Scur, qmax) > 0) break;   (lines 588-589), reached only after
\* Scur[quad]++; abortOn = FALSE is the loop without this test
BreakDelta(abortOn, recorded, sb, sc, qm) ==
  abortOn /\ recorded /\ sp_cmp_000(sb, sc, qm) > 0

\* ... while (cw_next(n, h, x) && sp_cmp(Sbest, Scur, qmax) <= 0)   (line 593)
ContinueCoset000(ok, abortOn, sb, sc, qm) == ok /\ (abortOn => sp_cmp_000(sb, sc, qm) <= 0)

\* if (sp_cmp(Sbest, Scur, qmax) <= 0)   (line 599)
KeepSpectrum000(sb, sc, qm) == sp_cmp_000(sb, sc, qm) <= 0

\* memset(Sbest, 0, ...); Sbest[qmin-1] = 1;   (lines 475-476)
\* qmin-1 is unsigned: with qmin = 0 the store lands far outside the array, and the
\* process either dies there or goes on with Sbest all zero
\* the index qmin-1 of that store
SbestIndex000(qmin) == IF qmin = 0 THEN UINT_MAX ELSE qmin - 1

SbestInit000(qmin, qm) ==
  IF SbestIndex000(qmin) < qm + 1
    THEN {[alive |-> TRUE, S |-> [i \in 0..qm |-> IF i = qmin - 1 THEN 1 ELSE 0]]}
    ELSE {[alive |-> TRUE, S |-> [i \in 0..qm |-> 0]], [alive |-> FALSE, S |-> <<>>]}

(***************************************************************************)
(* Values the variables hold before the program sets them.                 *)
(***************************************************************************)

NoField  == /\ P = 0 /\ gf_size = 0 /\ gf_log = <<>> /\ gf_exp = <<>> /\ gf_alpha = 0
NoTables == /\ Q = <<>> /\ V = <<>> /\ cqmin = 0 /\ dcap = <<>>
NoTrav   == /\ da = <<>> /\ df = <<>> /\ dd = <<>> /\ dw = 0 /\ d = <<>> /\ dmax = <<>>
NoSearch == /\ Scur = <<>> /\ Sbest = <<>> /\ earlyAbort = TRUE
NoHist   == /\ hs = <<>> /\ xs = <<>> /\ visited = {} /\ nrec = 0
            /\ full = <<>> /\ complete = FALSE /\ reported = <<>> /\ ref = <<>>
NoSieve  == /\ cercles = <<>> /\ perims = <<>> /\ part = <<>> /\ idx = <<>>
            /\ mult = 0 /\ bestmult = 0 /\ parts = <<>>

\* the field of 2^m elements, as gf_init(primitives[m]) leaves it
FieldReady(m) ==
  LET r == gf_init(primitives[m])
  IN  /\ P = primitives[m]
      /\ gf_size = r.size
      /\ gf_log = r.log
      /\ gf_exp = r.exp
      /\ gf_alpha \in AlphaOf(r.exp)

(***************************************************************************)
(* SpecGF: gf_init, one turn of its table loop at a time, on the tabulated *)
(* polynomials and on every polynomial up to MaxPoly.  While the loop      *)
(* runs, x holds gf_init's local x and dw its loop counter k.              *)
(***************************************************************************)

MaxPoly == 31

Tabulated == {primitives[m] : m \in 1..n_primitives}

InitGF ==
  /\ pc = "gf_init"
  /\ P \in Tabulated \cup (2..MaxPoly)
  /\ gf_size = 0 /\ gf_log = <<>> /\ gf_exp = <<>> /\ gf_alpha = 0
  /\ inst = <<>> /\ h = <<>> /\ x = <<>>
  /\ NoTables /\ NoTrav /\ NoSearch /\ NoHist /\ NoSieve

\* lines 119-130: the size from the degree of P, the allocations, gf_log[0], x = 1
GfStart ==
  /\ pc = "gf_init"
  /\ gf_size' = SizeOf(P)
  /\ gf_log' = FillStart.log
  /\ gf_exp' = FillStart.exp
  /\ x' = FillStart.x
  /\ dw' = FillStart.k
  /\ pc' = "gf_loop"
  /\ UNCHANGED <<P, gf_alpha, inst, tableVars, h, da, df, dd, d, dmax, Scur, Sbest,
                 earlyAbort, histVars, sieveVars>>

\* lines 131-137: one turn of the loop
GfStep ==
  /\ pc = "gf_loop"
  /\ dw < gf_size_minus_1
  /\ LET st == FillStep(P, gf_size, [k |-> dw, x |-> x, log |-> gf_log, exp |-> gf_exp])
     IN  /\ gf_log' = st.log
         /\ gf_exp' = st.exp
         /\ x' = st.x
         /\ dw' = st.k
  /\ UNCHANGED <<pc, P, gf_size, gf_alpha, inst, tableVars, h, da, df, dd, d, dmax,
                 Scur, Sbest, earlyAbort, histVars, sieveVars>>

\* lines 138-143: gf_alpha, then the test of the last power; error() ends the process
GfFinish ==
  /\ pc = "gf_loop"
  /\ ~(dw < gf_size_minus_1)
  /\ gf_alpha' \in AlphaOf(gf_exp)
  /\ pc' = IF x = gf_one THEN "gf_ok" ELSE "gf_error"
  /\ UNCHANGED <<P, gf_size, gf_log, gf_exp, inst, tableVars, h, x, travVars, Scur, Sbest,
                 earlyAbort, histVars, sieveVars>>

NextGF == GfStart \/ GfStep \/ GfFinish

SpecGF == InitGF /\ [][NextGF]_vars

(***************************************************************************)
(* SpecChk: the parity loop alone, chk_begin; do { } while (chk_next),     *)
(* for every field of at most 2^MaxM elements and every n <= MaxN.         *)
(***************************************************************************)

MaxM == 4

MaxN == 4

InitChk ==
  /\ pc = "chk_begin"
  /\ \E m \in 1..MaxM :
       /\ FieldReady(m)
       /\ \E n \in 1..MaxN : n < gf_size /\ inst = [m |-> m, n |-> n]
  /\ h = <<>> /\ x = <<>>
  /\ NoTables /\ NoTrav /\ NoSearch /\ NoHist /\ NoSieve

ChkBegin ==
  /\ pc = "chk_begin"
  /\ h' = chk_begin(inst.n)
  /\ hs' = <<h'>>
  /\ pc' = "chk_loop"
  /\ UNCHANGED <<fieldVars, inst, tableVars, x, travVars, Scur, Sbest, earlyAbort,
                 xs, visited, nrec, full, complete, reported, ref, sieveVars>>

ChkNext ==
  /\ pc = "chk_loop"
  /\ LET r == chk_next(inst.n, h)
     IN  /\ h' = r.h
         /\ hs' = IF r.ok THEN Append(hs, r.h) ELSE hs
         /\ pc' = IF r.ok THEN "chk_loop" ELSE "chk_done"
  /\ UNCHANGED <<fieldVars, inst, tableVars, x, travVars, Scur, Sbest, earlyAbort,
                 xs, visited, nrec, full, complete, reported, ref, sieveVars>>

NextChk == ChkBegin \/ ChkNext

SpecChk == InitChk /\ [][NextChk]_vars

(***************************************************************************)
(* SpecEnum: the parity loop around the codeword loop,                     *)
(*   chk_begin; do { cw_begin; do { } while (cw_next); } while (chk_next)  *)
(* for every field and length whose cosets hold at most MaxCoset words.    *)
(***************************************************************************)

MaxCoset == 64

InitEnum ==
  /\ pc = "enum_chk_begin"
  /\ \E m \in 1..MaxM :
       /\ FieldReady(m)
       /\ \E n \in 1..MaxN :
            /\ n < gf_size
            /\ Pow(gf_size, n - 1) <= MaxCoset
            /\ inst = [m |-> m, n |-> n]
  /\ h = <<>> /\ x = <<>>
  /\ NoTables /\ NoTrav /\ NoSearch /\ NoHist /\ NoSieve

EnumChkBegin ==
  /\ pc = "enum_chk_begin"
  /\ h' = chk_begin(inst.n)
  /\ hs' = <<h'>>
  /\ pc' = "enum_cw_begin"
  /\ UNCHANGED <<fieldVars, inst, tableVars, x, travVars, Scur, Sbest, earlyAbort,
                 xs, visited, nrec, full, complete, reported, ref, sieveVars>>

EnumCwBegin ==
  /\ pc = "enum_cw_begin"
  /\ x' = cw_begin(inst.n)
  /\ xs' = <<x'>>
  /\ pc' = "enum_cw_loop"
  /\ UNCHANGED <<fieldVars, inst, tableVars, h, travVars, Scur, Sbest, earlyAbort,
                 hs, visited, nrec, full, complete, reported, ref, sieveVars>>

EnumCwNext ==
  /\ pc = "enum_cw_loop"
  /\ LET r == cw_next(inst.n, h, x)
     IN  /\ x' = r.x
         /\ xs' = IF r.ok THEN Append(xs, r.x) ELSE xs
         /\ pc' = IF r.ok THEN "enum_cw_loop" ELSE "enum_chk_next"
  /\ UNCHANGED <<fieldVars, inst, tableVars, h, travVars, Scur, Sbest, earlyAbort,
                 hs, visited, nrec, full, complete, reported, ref, sieveVars>>

EnumChkNext ==
  /\ pc = "enum_chk_next"
  /\ LET r == chk_next(inst.n, h)
     IN  /\ h' = r.h
         /\ hs' = IF r.ok THEN Append(hs, r.h) ELSE hs
         /\ pc' = IF r.ok THEN "enum_cw_begin" ELSE "enum_done"
  /\ UNCHANGED <<fieldVars, inst, tableVars, x, travVars, Scur, Sbest, earlyAbort,
                 xs, visited, nrec, full, complete, reported, ref, sieveVars>>

NextEnum == EnumChkBegin \/ EnumCwBegin \/ EnumCwNext \/ EnumChkNext

SpecEnum == InitEnum /\ [][NextEnum]_vars


(***************************************************************************)
(* The search program (main).                                              *)
(***************************************************************************)

Points == DOMAIN inst.C

\* the size test passing 3 points as a field of order 2
SizeIsPower_three(q, m) == q = 3 \/ (m >= 0 /\ Pow(2, m) = q)

\* the test 1 << m != q of line 327 as it passes.  With no point at all m is 0 - 1,
\* the shift is undefined, and whatever it gives the next test n >= 0 stops the run:
\* the case is given to that test
SizeIsPower(q, m) == m < 0 \/ Pow(2, m) = q

\* primitives[m] as line 330 reads it: the table has the entries 0..n_primitives, and
\* a read past its end gives whatever the memory after it holds (a sample of values)
PrimitiveAt(m) == IF m \in 0..n_primitives THEN {primitives[m]} ELSE {1, 7}

\* lines 307-333: the constellation, the two checks, the field
BuildField ==
  /\ pc = "start"
  /\ LET q == Cardinality(Points)
         m == ReadM(q)
     IN  IF ~SizeIsPower(q, m) \/ inst.n >= q
           THEN /\ pc' = "error"
                /\ UNCHANGED fieldVars
           ELSE \E poly \in PrimitiveAt(m) :
                  LET r == gf_init(poly)
                  IN  /\ P' = poly
                      /\ gf_size' = r.size
                      /\ gf_log' = r.log
                      /\ gf_exp' = r.exp
                      /\ gf_alpha' \in AlphaOf(r.exp)
                      /\ pc' = IF r.ok THEN "mapping" ELSE "error"
  /\ UNCHANGED <<inst, tableVars, h, x, travVars, Scur, Sbest, earlyAbort, histVars,
                 sieveVars>>

\* lines 337-456: the mapping and its check, Q, V, cqmin, dcap, the spectra, chk_begin
BuildTables ==
  /\ pc = "mapping"
  /\ inst.prog = "part_001"
  /\ LET q  == gf_size
         Qt == BuildQ(inst.C, inst.pi, q)
         Vt == BuildV(Qt, q)
         cq == BuildCqmin(Qt, Vt, q)
     IN  IF \E i \in 0..(q - 1) : inst.pi[i] >= q
           THEN /\ pc' = "error"
                /\ UNCHANGED <<tableVars, Scur, Sbest, h, hs>>
           ELSE /\ Q' = Qt
                /\ V' = Vt
                /\ cqmin' = cq
                /\ dcap' = BuildDcap(Qt, Vt, q, inst.n, inst.qmax, cq)
                /\ Sbest' = [i \in 0..(inst.qmax - 1) |-> UINT_MAX]
                /\ Scur' = [i \in 0..(inst.qmax - 1) |-> 0]
                /\ h' = chk_begin(inst.n)
                /\ hs' = <<h'>>
                /\ pc' = "parity"
  /\ UNCHANGED <<fieldVars, inst, x, travVars, earlyAbort,
                 xs, visited, nrec, full, complete, reported, ref, sieveVars>>

\* lines 461-473: a new parity: memset(Scur), cw_begin, the deltas of its first codeword
BeginParity ==
  /\ pc = "parity"
  /\ Scur' = [i \in 0..(inst.qmax - 1) |-> 0]
  /\ x' = cw_begin(inst.n)
  /\ LET st == TravInit(inst.n)
     IN  da' = st.da /\ df' = st.df /\ dd' = st.dd /\ dw' = st.dw
  /\ xs' = <<x'>>
  /\ visited' = {}
  /\ nrec' = 0
  /\ complete' = FALSE
  /\ pc' = "visit"
  /\ UNCHANGED <<fieldVars, inst, tableVars, h, d, dmax, Sbest, earlyAbort,
                 hs, full, reported, ref, sieveVars>>

\* lines 475-513: one turn of for (;;): the neighbour at ranks da is evaluated and
\* recorded, then the ranks step, or the loop is left when the focus is n-1
Visit ==
  /\ pc = "visit"
  /\ LET quad == Quadrance(inst.n, h, x, da)
         j    == df[0]
     IN  /\ Scur' = Record(Scur, quad, inst.qmax)
         /\ nrec' = IF da \notin visited /\ quad < inst.qmax THEN nrec + 1 ELSE nrec
         /\ visited' = visited \cup {da}
         /\ IF j = inst.n - 1
              THEN /\ df' = [df EXCEPT ![0] = 0]
                   /\ pc' = "cw_next"
                   /\ UNCHANGED <<da, dd, dw>>
              ELSE LET st == HStep(gf_size, x, [da |-> da, df |-> df, dd |-> dd, dw |-> dw], j)
                   IN  /\ da' = st.da /\ df' = st.df /\ dd' = st.dd /\ dw' = st.dw
                       /\ pc' = "visit"
  /\ UNCHANGED <<fieldVars, inst, tableVars, h, x, d, dmax, Sbest, earlyAbort,
                 hs, xs, full, complete, reported, ref, sieveVars>>

\* line 516 and lines 467-473: cw_next, the test of the spectrum, the deltas of the
\* next codeword
NextCodeword ==
  /\ pc = "cw_next"
  /\ LET r == cw_next(inst.n, h, x)
     IN  /\ x' = r.x
         /\ complete' = ~r.ok
         /\ IF ContinueCoset(r.ok, earlyAbort, Sbest, Scur, inst.qmax)
              THEN /\ LET st == TravInit(inst.n)
                      IN  da' = st.da /\ df' = st.df /\ dd' = st.dd /\ dw' = st.dw
                   /\ xs' = Append(xs, r.x)
                   /\ visited' = {}
                   /\ pc' = "visit"
              ELSE /\ pc' = "keep"
                   /\ UNCHANGED <<da, df, dd, dw, xs, visited>>
  /\ UNCHANGED <<fieldVars, inst, tableVars, h, d, dmax, Scur, Sbest, earlyAbort,
                 hs, nrec, full, reported, ref, sieveVars>>

\* lines 534-550: the spectrum is kept and printed if it is the best, then chk_next
KeepBest ==
  /\ pc = "keep"
  /\ IF KeepSpectrum(Sbest, Scur, inst.qmax)
       THEN /\ Sbest' = Scur
            /\ reported' = Append(reported, h)
       ELSE UNCHANGED <<Sbest, reported>>
  /\ full' = IF complete THEN Append(full, [h |-> h, S |-> Scur]) ELSE full
  /\ LET r == chk_next(inst.n, h)
     IN  /\ h' = r.h
         /\ hs' = IF r.ok THEN Append(hs, r.h) ELSE hs
         /\ pc' = IF r.ok THEN "parity" ELSE "done"
  /\ UNCHANGED <<fieldVars, inst, tableVars, x, travVars, Scur, earlyAbort,
                 xs, visited, nrec, complete, ref, sieveVars>>

(***************************************************************************)
(* The search of part_000, for one mapping of its mapping file.            *)
(***************************************************************************)

\* lines 468-529: the mapping and its check, Sbest, Q with cqmin, V, chk_begin
Tables000 ==
  /\ pc = "mapping"
  /\ inst.prog = "part_000"
  /\ LET q  == gf_size
         Qt == BuildQ(inst.C, inst.pi, q)
     IN  IF \E i \in 0..(q - 1) : inst.pi[i] >= q
           THEN /\ pc' = "error"
                /\ UNCHANGED <<tableVars, Scur, Sbest, h, hs>>
           ELSE \E sb \in SbestInit000(inst.qmin, inst.qmax) :
                  IF ~sb.alive
                    THEN /\ pc' = "error"
                         /\ UNCHANGED <<tableVars, Scur, Sbest, h, hs>>
                    ELSE /\ Sbest' = sb.S
                         /\ Q' = Qt
                         /\ V' = BuildV(Qt, q)
                         /\ cqmin' = Cqmin000(Qt, q, inst.qmax)
                         /\ dcap' = <<>>
                         /\ Scur' = [i \in 0..inst.qmax |-> 0]
                         /\ h' = chk_begin(inst.n)
                         /\ hs' = <<h'>>
                         /\ pc' = "parity000"
  /\ UNCHANGED <<fieldVars, inst, x, travVars, earlyAbort,
                 xs, visited, nrec, full, complete, reported, ref, sieveVars>>

\* lines 534-556: a new parity: memset(Scur), cw_begin, dmax, delta_begin
BeginParity000 ==
  /\ pc = "parity000"
  /\ Scur' = [i \in 0..inst.qmax |-> 0]
  /\ x' = cw_begin(inst.n)
  /\ dmax' = Dmax000(inst.n, gf_size, x', inst.qmax, cqmin)
  /\ d' = delta_begin(inst.n)
  /\ xs' = <<x'>>
  /\ complete' = FALSE
  /\ pc' = "delta000"
  /\ UNCHANGED <<fieldVars, inst, tableVars, h, da, df, dd, dw, Sbest, earlyAbort,
                 hs, visited, nrec, full, reported, ref, sieveVars>>

\* lines 558-590: one turn of the do ... while (delta_next): the neighbour at the
\* increments d is evaluated and recorded, then the break or delta_next
Visit000 ==
  /\ pc = "delta000"
  /\ LET quad == Quadrance(inst.n, h, x, d)
         sc   == Record000(Scur, quad, inst.qmax)
         r    == delta_next(inst.n, dmax, d)
     IN  /\ Scur' = sc
         /\ IF BreakDelta(earlyAbort, quad <= inst.qmax, Sbest, sc, inst.qmax)
              THEN /\ pc' = "cw_next000"
                   /\ d' = d
              ELSE /\ pc' = IF r.ok THEN "delta000" ELSE "cw_next000"
                   /\ d' = r.d
  /\ UNCHANGED <<fieldVars, inst, tableVars, h, x, da, df, dd, dw, dmax, Sbest, earlyAbort,
                 histVars, sieveVars>>

\* line 593 and lines 543-556: cw_next, the test of the spectrum, dmax and
\* delta_begin for the next codeword
NextCodeword000 ==
  /\ pc = "cw_next000"
  /\ LET r == cw_next(inst.n, h, x)
     IN  /\ x' = r.x
         /\ complete' = (~r.ok /\ (earlyAbort => sp_cmp_000(Sbest, Scur, inst.qmax) <= 0))
         /\ IF ContinueCoset000(r.ok, earlyAbort, Sbest, Scur, inst.qmax)
              THEN /\ dmax' = Dmax000(inst.n, gf_size, r.x, inst.qmax, cqmin)
                   /\ d' = delta_begin(inst.n)
                   /\ xs' = Append(xs, r.x)
                   /\ pc' = "delta000"
              ELSE /\ pc' = "keep000"
                   /\ UNCHANGED <<d, dmax, xs>>
  /\ UNCHANGED <<fieldVars, inst, tableVars, h, da, df, dd, dw, Scur, Sbest, earlyAbort,
                 hs, visited, nrec, full, reported, ref, sieveVars>>

\* while (mapping_read(f, q, pi)): the mappings of the file that are not read yet.
\* inst.pi is the mapping in the array pi, inst.rest the ones after it in the file and
\* inst.nread the number of mappings already searched; an input without the field
\* rest is a file of one mapping
MoreMappings == IF "rest" \in DOMAIN inst THEN inst.rest ELSE <<>>

\* lines 599-615: the spectrum and its parity are kept and printed if the spectrum
\* is the best, then chk_next; after the last parity the best is printed and the next
\* mapping of the file is read
KeepBest000 ==
  /\ pc = "keep000"
  /\ IF KeepSpectrum000(Sbest, Scur, inst.qmax)
       THEN /\ Sbest' = Scur
            /\ reported' = Append(reported, h)
       ELSE UNCHANGED <<Sbest, reported>>
  /\ full' = IF complete THEN Append(full, [h |-> h, S |-> Scur]) ELSE full
  /\ LET r == chk_next(inst.n, h)
     IN  /\ h' = r.h
         /\ hs' = IF r.ok THEN Append(hs, r.h) ELSE hs
         /\ pc' = IF r.ok THEN "parity000" ELSE IF MoreMappings /= <<>> THEN "mapping" ELSE "done"
         /\ inst' = IF ~r.ok /\ MoreMappings /= <<>>
                      THEN [inst EXCEPT !.pi = Head(inst.rest), !.rest = Tail(inst.rest),
                                        !.nread = inst.nread + 1]
                      ELSE inst
  /\ UNCHANGED <<fieldVars, tableVars, x, travVars, Scur, earlyAbort,
                 xs, visited, nrec, complete, ref, sieveVars>>

\* the program is run a second time on the same inputs, now with the sp_cmp test of
\* its codeword loop (and, in part_000, of its increment loop); the outcome of the
\* first run is kept in ref
Rerun ==
  /\ pc = "done"
  /\ ~earlyAbort
  /\ ref' = [reported |-> reported, Sbest |-> Sbest, full |-> full, hs |-> hs]
  /\ earlyAbort' = TRUE
  /\ pc' = "start"
  /\ P' = 0 /\ gf_size' = 0 /\ gf_log' = <<>> /\ gf_exp' = <<>> /\ gf_alpha' = 0
  /\ Q' = <<>> /\ V' = <<>> /\ cqmin' = 0 /\ dcap' = <<>>
  /\ h' = <<>> /\ x' = <<>>
  /\ da' = <<>> /\ df' = <<>> /\ dd' = <<>> /\ dw' = 0 /\ d' = <<>> /\ dmax' = <<>>
  /\ Scur' = <<>> /\ Sbest' = <<>>
  /\ hs' = <<>> /\ xs' = <<>> /\ visited' = {} /\ nrec' = 0
  /\ full' = <<>> /\ complete' = FALSE /\ reported' = <<>>
  /\ UNCHANGED <<inst, sieveVars>>

(***************************************************************************)
(* Inputs of the search program.                                           *)
(***************************************************************************)

\* the two points of a 2-ASK, the square, a 4-ASK, and an 8-QAM on the odd grid
ASK2 == Arr(<< <<0, 0>>, <<1, 0>> >>)
SQ4  == Arr(<< <<0, 0>>, <<0, 1>>, <<1, 1>>, <<1, 0>> >>)
ASK4 == Arr(<< <<0, 0>>, <<1, 0>>, <<2, 0>>, <<3, 0>> >>)
QAM8 == Arr(<< <<-3, 1>>, <<-1, 1>>, <<1, 1>>, <<3, 1>>,
               <<-3, -1>>, <<-1, -1>>, <<1, -1>>, <<3, -1>> >>)

\* mappings of 4 elements: two permutations and one that is not a permutation
Maps4 == {Arr(<<0, 1, 2, 3>>), Arr(<<2, 0, 3, 1>>), Arr(<<0, 0, 1, 2>>)}

Id8 == Arr(<<0, 1, 2, 3, 4, 5, 6, 7>>)

MaxQmax == 5

\* quadrance bounds tried on the 8-QAM (its quadrances are 4, 8, 16, 20, 36, 40)
Qmax8 == {9, 13}

SmallInputs ==
       {[prog |-> "part_001", n |-> 1, qmax |-> qm, C |-> ASK2, pi |-> Arr(<<0, 1>>)] :
          qm \in 0..MaxQmax}
  \cup {[prog |-> "part_001", n |-> n, qmax |-> qm, C |-> c, pi |-> mp] :
          n \in 1..3, qm \in 0..MaxQmax, c \in {SQ4, ASK4}, mp \in Maps4}
  \cup {[prog |-> "part_001", n |-> n, qmax |-> qm, C |-> QAM8, pi |-> Id8] :
          n \in 2..3, qm \in Qmax8}

\* a code of length 4 over GF(8): the cutoffs of weight 3 differ from the others
DeepInputs == {[prog |-> "part_001", n |-> 4, qmax |-> 9, C |-> QAM8, pi |-> Id8]}

MaxQmin == 3

\* inputs of part_000: it has the lower bound qmin besides
Inputs000 ==
       {[prog |-> "part_000", n |-> n, qmin |-> ql, qmax |-> qm, C |-> c, pi |-> mp] :
          n \in 1..3, ql \in 0..MaxQmin, qm \in 2..MaxQmax, c \in {SQ4, ASK4}, mp \in Maps4}
  \cup {[prog |-> "part_000", n |-> n, qmin |-> ql, qmax |-> qm, C |-> QAM8, pi |-> Id8] :
          n \in 2..3, ql \in {1, 9}, qm \in Qmax8}

InitMain(inputs, abortOn) ==
  /\ pc = "start"
  /\ inst \in inputs
  /\ earlyAbort = abortOn
  /\ NoField /\ NoTables /\ NoTrav
  /\ h = <<>> /\ x = <<>> /\ Scur = <<>> /\ Sbest = <<>>
  /\ NoHist /\ NoSieve

Search == BuildField \/ BuildTables \/ BeginParity \/ Visit \/ NextCodeword \/ KeepBest

Search000 == Tables000 \/ BeginParity000 \/ Visit000 \/ NextCodeword000 \/ KeepBest000

\* Spec: both programs on every small input, run without the early abort and then
\* with it
Init == InitMain(SmallInputs \cup Inputs000, FALSE)

Next == Search \/ Search000 \/ Rerun

Spec == Init /\ [][Next]_vars

\* SpecFull: the codeword loop without its sp_cmp test, every coset traversed to its
\* end, on the small inputs and on the length-4 code
InitFull == InitMain(SmallInputs \cup DeepInputs, FALSE)

NextFull == Search

SpecFull == InitFull /\ [][NextFull]_vars

(***************************************************************************)
(* Properties of the neighbour traversal.                                  *)
(***************************************************************************)

IsCanonical(n, q, hh) ==
  /\ DOMAIN hh = 0..(n - 1)
  /\ \A i \in 0..(n - 1) : hh[i] \in 0..(q - 2)
  /\ \A i \in 0..(n - 2) : hh[i] >= hh[i + 1]
  /\ hh[n - 1] = 0

\* the reference: for every codeword of the coset of hh (free coordinates fr, last
\* coordinate from the parity constraint) and every rank vector rr in [0,q)^(n-1),
\* the exact quadrance; the spectrum counts those strictly below qm
BruteSpectrum(n, q, hh, qm) ==
  LET Free == [0..(n - 2) -> 0..(q - 1)]
      Words == {[i \in 0..(n - 1) |->
                   IF i < n - 1 THEN fr[i] ELSE CwLast(n, hh, fr, 0, gf_zero)] : fr \in Free}
      below == {p \in Words \X Free : Quadrance(n, hh, p[1], p[2]) < qm}
  IN  [k \in 0..(qm - 1) |->
         Cardinality({p \in below : Quadrance(n, hh, p[1], p[2]) = k})]

\* C1: for every canonical parity, the spectrum accumulated over the full coset by the
\* traversal with the dcap cutoffs equals the spectrum of the exhaustive reference
C1_PrunedEqualsBrute ==
  (pc = "keep" /\ complete /\ IsCanonical(inst.n, gf_size, h))
    => Scur = BruteSpectrum(inst.n, gf_size, h, inst.qmax)

\* C2: within the traversal of one codeword no rank vector is visited twice, and for a
\* parity run to completion the sum of Scur equals the number of distinct (codeword,
\* rank vector) pairs visited whose quadrance is strictly below qmax
C2_NoRankVectorTwice ==
  /\ pc = "visit" => da \notin visited
  /\ (pc = "keep" /\ complete) => SumTo(Scur, inst.qmax) = nrec

C2_Witness ==
  /\ pc = "keep" /\ complete
  /\ inst.n = 4
  /\ nrec > Pow(gf_size, inst.n - 1)

(***************************************************************************)
(* Properties of the search.                                               *)
(***************************************************************************)

\* the complete spectrum of the k-th enumerated parity, from the run without abort
FullOf(hh) == {ref.full[k].S : k \in {k \in 1..Len(ref.full) : ref.full[k].h = hh}}

\* C3: when the parity loop of the engine ends, Sbest is the complete spectrum of some
\* enumerated parity, no enumerated parity has a complete spectrum strictly better
\* than Sbest, and the last parity reported has a complete spectrum equal to Sbest
\* under sp_cmp
C3_BestAtEnd ==
  (pc = "done" /\ earlyAbort /\ inst.prog = "part_001") =>
    /\ \E k \in 1..Len(ref.full) : ref.full[k].S = Sbest
    /\ \A k \in 1..Len(ref.full) : sp_cmp(Sbest, ref.full[k].S, inst.qmax) >= 0
    /\ reported /= <<>>
    /\ \E S \in FullOf(reported[Len(reported)]) : sp_cmp(Sbest, S, inst.qmax) = 0

C3_Witness ==
  /\ pc = "done" /\ earlyAbort /\ inst.prog = "part_001"
  /\ inst.qmax > 2
  /\ Len(reported) >= 2
  /\ Len(ref.full) > Len(reported)

\* C4: the run with the early abort and the run without it accept the same parities
\* in the same order and end with the same Sbest and the same best parity
C4_AbortEquivalence ==
  (pc = "done" /\ earlyAbort) =>
    /\ reported = ref.reported
    /\ Sbest = ref.Sbest
    /\ hs = ref.hs

C4_Witness ==
  /\ pc = "done" /\ earlyAbort
  /\ Len(full) < Len(hs)
  /\ Len(reported) >= 2

(***************************************************************************)
(* Properties of the two enumerators.                                      *)
(***************************************************************************)

\* C5: for every canonical parity h, the all-zero vector of cw_begin and every x left
\* by a cw_next that returns true satisfy the parity constraint chk_valid(n, h, x)
C5_CodewordsValid ==
  (pc = "enum_cw_loop" /\ IsCanonical(inst.n, gf_size, h)) => chk_valid(inst.n, h, x)

C5_Witness ==
  /\ pc = "enum_cw_loop"
  /\ IsCanonical(inst.n, gf_size, h)
  /\ inst.n >= 3
  /\ Len(xs) > 1
  /\ x[inst.n - 1] /= gf_zero

\* C6: the codeword loop without abort visits exactly q^(n-1) codewords, pairwise
\* distinct, and cw_next returns false after the codeword whose free coordinates are
\* all q-1
C6_CosetSize ==
  pc = "enum_chk_next" =>
    /\ Len(xs) = Pow(gf_size, inst.n - 1)
    /\ \A j, k \in 1..Len(xs) : j /= k => xs[j] /= xs[k]
    /\ \A i \in 0..(inst.n - 2) : xs[Len(xs)][i] = gf_size - 1

C6_Witness ==
  /\ pc = "enum_chk_next"
  /\ inst.n >= 3
  /\ Len(xs) = MaxCoset

\* C7: for 1 <= n < q, every vector produced by chk_begin and by each chk_next that
\* returns true is in canonical form, and no vector is produced twice
C7_CanonicalDistinct ==
  /\ \A k \in 1..Len(hs) : IsCanonical(inst.n, gf_size, hs[k])
  /\ \A j, k \in 1..Len(hs) : j /= k => hs[j] /= hs[k]

\* the number of coordinates of hh that hold e
CountOf(n, hh, e) == Cardinality({i \in 0..(n - 1) : hh[i] = e})

\* v and w are the same parity up to a permutation of the coordinates and a common
\* scaling by alpha^c
SameClass(n, q, v, w) ==
  \E c \in 0..(q - 2) :
    \A e \in 0..(q - 2) : CountOf(n, v, e) = CountOf(n, w, (e + c) % (q - 1))

\* C8: among the parity vectors with n nonzero coefficients, every class under
\* permutation and common scaling has exactly one representative among the vectors
\* produced by chk_begin/chk_next
C8_OnePerClass ==
  pc = "chk_done" =>
    \A v \in [0..(inst.n - 1) -> 0..(gf_size - 2)] :
      Cardinality({k \in 1..Len(hs) : SameClass(inst.n, gf_size, v, hs[k])}) = 1

C10_TablesInverse ==
  (pc \in {"gf_ok", "gf_error"} /\ P \in Tabulated) =>
    /\ pc = "gf_ok"
    /\ DOMAIN gf_exp = 0..(gf_size - 2)
    /\ DOMAIN gf_log = 0..(gf_size - 1)
    /\ {gf_exp[k] : k \in 0..(gf_size - 2)} = 1..(gf_size - 1)
    /\ \A v \in 1..(gf_size - 1) : gf_log[v] \in DOMAIN gf_exp /\ gf_exp[gf_log[v]] = v
    /\ \A k \in 0..(gf_size - 2) : gf_log[gf_exp[k]] = k
    /\ gf_log[gf_zero] = -1

C10_Witness ==
  /\ pc = "gf_ok"
  /\ P = primitives[n_primitives]
  /\ gf_size = 1024

\* C11: gf_init ends in the fatal error for every polynomial whose root 2 does not
\* have multiplicative order exactly q-1, and returns normally only when the cycle of
\* powers comes back to 1 for the first time after exactly q-1 steps
\* (x holds the power of step q-1, gf_exp[k] the power of step k)
C11_ErrorUnlessPrimitive ==
  pc \in {"gf_ok", "gf_error"} =>
    (pc = "gf_ok" <=> (x = gf_one /\ \A k \in 1..(gf_size - 2) : gf_exp[k] /= gf_one))

(***************************************************************************)
(* SpecCmp: the two sp_cmp on their own.  Sbest, Scur and ref hold three   *)
(* spectra a, b, c; x holds the values sp_cmp returns.  The sp_cmp of      *)
(* part_001 only tests counts for = and >, so small counts stand for all;  *)
(* the one of part_000 subtracts and converts, so its counts are unsigned  *)
(* longs, some of them beyond 2^31.                                        *)
(***************************************************************************)

MaxCmpQmax == 4

MaxCount == 2

MaxCmpQmax000 == 1

\* the unsigned longs 0, 1, 2^31 and 2^32
WideCounts == {<<0, 0, 0, 0>>, <<1, 0, 0, 0>>, <<0, 32768, 0, 0>>, <<0, 0, 1, 0>>}

\* the spectra sp_cmp may be given: qmax entries in part_001, qmax + 1 in part_000
CmpSpectra ==
  IF inst.prog = "part_001"
    THEN [0..(inst.qmax - 1) -> 0..MaxCount]
    ELSE [0..inst.qmax -> WideCounts]

InitCmp ==
  /\ pc = "cmp"
  /\ inst \in {[prog |-> "part_001", qmax |-> qm] : qm \in 0..MaxCmpQmax}
         \cup {[prog |-> "part_000", qmax |-> qm] : qm \in 0..MaxCmpQmax000}
  /\ Sbest \in CmpSpectra
  /\ Scur \in CmpSpectra
  /\ earlyAbort = TRUE
  /\ NoField /\ NoTables /\ NoTrav /\ NoHist /\ NoSieve
  /\ h = <<>> /\ x = <<>>

\* the comparator of the program the spectra belong to
CmpOf(a, b, qm) ==
  IF inst.prog = "part_001" THEN sp_cmp(a, b, qm) ELSE sp_cmp_long(a, b, qm)

\* sp_cmp(a, b), sp_cmp(b, a), sp_cmp(b, c), sp_cmp(a, c), sp_cmp(a, a) for a third
\* spectrum c
Compare ==
  \E c \in CmpSpectra :
    /\ ref' = c
    /\ x' = [ab |-> CmpOf(Sbest, Scur, inst.qmax),
             ba |-> CmpOf(Scur, Sbest, inst.qmax),
             bc |-> CmpOf(Scur, c, inst.qmax),
             ac |-> CmpOf(Sbest, c, inst.qmax),
             aa |-> CmpOf(Sbest, Sbest, inst.qmax)]
    /\ pc' = "cmp_done"
    /\ UNCHANGED <<fieldVars, inst, tableVars, h, travVars, Scur, Sbest, earlyAbort,
                   hs, xs, visited, nrec, full, complete, reported, sieveVars>>

Cmp001 == pc = "cmp" /\ inst.prog = "part_001" /\ Compare

Cmp000 == pc = "cmp" /\ inst.prog = "part_000" /\ Compare

NextCmp == Cmp001 \/ Cmp000

SpecCmp == InitCmp /\ [][NextCmp]_vars

\* the unsigned long aw is below the unsigned long bw (limbs), or the count aw below bw
Below(aw, bw) ==
  IF inst.prog = "part_001" THEN aw < bw
  ELSE \E k \in 1..4 : aw[k] < bw[k] /\ \A j \in (k + 1)..4 : aw[j] = bw[j]

\* the indices below qmax at which the spectra a and b differ
Differ(a, b) == {i \in 0..(inst.qmax - 1) : a[i] /= b[i]}

FirstOf(S) == CHOOSE i \in S : \A j \in S : i <= j

\* C12: sp_cmp(a, b) is 0 if and only if a[i] = b[i] for every i in [0, qmax);
\* otherwise its sign is decided at the smallest index where a and b differ, and it is
\* negative exactly when b has the smaller count there
C12_FirstDifferenceDecides ==
  pc = "cmp_done" =>
    /\ x.ab = 0 <=> Differ(Sbest, Scur) = {}
    /\ Differ(Sbest, Scur) /= {} =>
         LET k == FirstOf(Differ(Sbest, Scur))
         IN  /\ x.ab < 0 <=> Below(Scur[k], Sbest[k])
             /\ x.ab > 0 <=> Below(Sbest[k], Scur[k])

Sign(v) == IF v < 0 THEN -1 ELSE IF v > 0 THEN 1 ELSE 0

\* C13: in both variants sp_cmp(S, S) = 0, the sign of sp_cmp(a, b) is the opposite
\* of the sign of sp_cmp(b, a), and sp_cmp(a, b) <= 0 with sp_cmp(b, c) <= 0 implies
\* sp_cmp(a, c) <= 0
C13_OrderLaws ==
  pc = "cmp_done" =>
    /\ x.aa = 0
    /\ Sign(x.ab) = -Sign(x.ba)
    /\ (x.ab <= 0 /\ x.bc <= 0) => x.ac <= 0

(***************************************************************************)
(* SpecZero: part_001 run as the program runs it (with the test of the     *)
(* spectrum in the codeword loop) on the inputs whose qmax is 0.  The       *)
(* program is one sequential thread, so the step that is enabled is taken: *)
(* weak fairness of the set-up steps and of the steps of the parity loop,  *)
(* the codeword loop and the neighbour loop.                               *)
(***************************************************************************)

InitZero == InitMain({i \in SmallInputs : i.qmax = 0}, TRUE)

\* a step of the set-up: BuildField, or the tables of a mapping (BuildTables, Tables000,
\* TablesAll), told by the program counter alone.  In the states start and mapping one
\* of them is enabled, and they are the only steps that change pc there.
SetupStep ==
  /\ pc \in {"start", "mapping"}
  /\ pc' \in {"mapping", "parity", "parity000", "pair", "error"}

\* lines 457-550: one step of the loops of main
Loops == BeginParity \/ Visit \/ NextCodeword \/ KeepBest

SpecZero == InitZero /\ [][NextFull]_vars /\ WF_pc(SetupStep) /\ WF_vars(Loops)

\* C14: with qmax = 0 no pair is ever recorded and no spectrum has a non-zero entry,
\* the run never reaches the fatal error, and it reaches its normal end: every
\* neighbour traversal, every codeword loop and the parity loop terminate
C14_ZeroQmaxEnds ==
  /\ [](inst.qmax = 0 =>
          /\ nrec = 0
          /\ pc /= "error"
          /\ \A i \in DOMAIN Scur : Scur[i] = 0
          /\ \A k \in 1..Len(full) : \A i \in DOMAIN full[k].S : full[k].S[i] = 0)
  /\ (inst.qmax = 0 ~> pc = "done")

\* the run of a code of length 2 over 4 points has ended with qmax = 0, after more
\* than one parity, each with its whole coset traversed and each reported
C14_Witness ==
  /\ pc = "done" /\ inst.qmax = 0 /\ inst.n = 2
  /\ Len(hs) > 1 /\ Len(full) = Len(hs) /\ Len(reported) = Len(hs)

(***************************************************************************)
(* spectra.c: the spectra of all the parities at once.  Every vector x of  *)
(* GF(q)^n and every neighbour y of x within the increments dmax is        *)
(* visited; the pair counts for each parity that both x and y satisfy.     *)
(* S is held in Scur, the list of the parities in hs.                      *)
(***************************************************************************)

\* chk_begin(n, h); do { nspectra++; } while (chk_next(n, h));  the parities in the
\* order of their number hid
RECURSIVE ChkList(_, _)
ChkList(n, hh) ==
  IF chk_next(n, hh).ok THEN <<hh>> \o ChkList(n, chk_next(n, hh).h) ELSE <<hh>>

\* spectra.c, for (i = 0; i < n; ++i) if (x[i] == gf_size_minus_1) x[i] = gf_zero; else break;
RECURSIVE CwCarryAll(_, _, _)
CwCarryAll(n, xx, i) ==
  IF i < n /\ xx[i] = gf_size_minus_1
    THEN CwCarryAll(n, [xx EXCEPT ![i] = gf_zero], i + 1)
    ELSE [i |-> i, x |-> xx]

\* spectra.c, static inline bool cw_next(size_t n, gf_elt *x): the next vector
cw_next_all(n, xx) ==
  LET c == CwCarryAll(n, xx, 0)
  IN  IF c.i = n THEN [ok |-> FALSE, x |-> c.x]
      ELSE [ok |-> TRUE, x |-> [c.x EXCEPT ![c.i] = c.x[c.i] + 1]]

\* spectra.c, if (Qxi[Vxi[j]] >= qmax - qmin) { dmax[i] = j; break; }  in unsigned:
\* the difference wraps above every quadrance when qmin exceeds qmax
RECURSIVE DmaxScanAll(_, _, _, _, _, _, _)
DmaxScanAll(Qt, Vt, xi, q, qm, qmin, j) ==
  IF j < q /\ (qm < qmin \/ Qt[xi][Vt[xi][j]] < qm - qmin)
    THEN DmaxScanAll(Qt, Vt, xi, q, qm, qmin, j + 1)
    ELSE j

\* spectra.c lines 403-412: dmax[i] = q unless the scan breaks
DmaxAll(Qt, Vt, n, q, xx, qm, qmin) ==
  [i \in 0..(n - 1) |-> DmaxScanAll(Qt, Vt, xx[i], q, qm, qmin, 0)]

\* spectra.c, delta_begin: memset(d, 0, n * sizeof *d)
delta_begin_all(n) == [i \in 0..(n - 1) |-> 0]

\* spectra.c, for (i = 0; i < n; ++i) if (d[i] >= dmax[i]-1) d[i] = 0; else break;
\* (dmax[i]-1 is a size_t: it wraps when dmax[i] = 0 and then nothing reaches it)
RECURSIVE DeltaCarryAll(_, _, _, _)
DeltaCarryAll(n, dm, dv, i) ==
  IF i < n /\ dm[i] /= 0 /\ dv[i] >= dm[i] - 1
    THEN DeltaCarryAll(n, dm, [dv EXCEPT ![i] = 0], i + 1)
    ELSE [i |-> i, d |-> dv]

\* spectra.c, static inline bool delta_next(size_t n, size_t *dmax, size_t *d)
delta_next_all(n, dm, dv) ==
  LET c == DeltaCarryAll(n, dm, dv, 0)
  IN  IF c.i = n THEN [ok |-> FALSE, d |-> c.d]
      ELSE [ok |-> TRUE, d |-> [c.d EXCEPT ![c.i] = c.d[c.i] + 1]]

\* the cell k of the flat table V, for k inside its q*q cells
VCell(k) == V[k \div gf_size][k % gf_size]

\* spectra.c lines 418-421: y[i] = V[x[i]*q + d[i]]
NeighbourAll(n, xx, dv) == [i \in 0..(n - 1) |-> VCell((xx[i] * gf_size) + dv[i])]

\* spectra.c lines 417-421: quad += Q[x[i]*q + y[i]]
RECURSIVE QuadAll(_, _, _, _)
QuadAll(n, xx, yy, i) ==
  IF i < n THEN Q[xx[i]][yy[i]] + QuadAll(n, xx, yy, i + 1) ELSE 0

\* spectra.c lines 431-447: if (quad >= qmax) continue; then for every parity of
\* number hid with chk_valid(n, h, x) && chk_valid(n, h, y): S[hid*qmax + quad]++
RecordAll(S, n, parities, xx, yy, quad, qm) ==
  IF quad >= qm THEN S
  ELSE [k \in DOMAIN S |->
          IF /\ k % qm = quad
             /\ chk_valid(n, parities[(k \div qm) + 1], xx)
             /\ chk_valid(n, parities[(k \div qm) + 1], yy)
            THEN S[k] + 1 ELSE S[k]]

\* spectra.c lines 299-400: the mapping and its check, Q, V, qmin, the spectra S, the
\* first vector with its dmax and delta_begin
TablesAll ==
  /\ pc = "mapping"
  /\ inst.prog = "spectra"
  /\ LET q  == gf_size
         Qt == BuildQ(inst.C, inst.pi, q)
         Vt == BuildV(Qt, q)
     IN  IF \E i \in 0..(q - 1) : inst.pi[i] >= q
           THEN /\ pc' = "error"
                /\ UNCHANGED <<tableVars, Scur, h, x, d, dmax, hs>>
           ELSE /\ Q' = Qt
                /\ V' = Vt
                /\ cqmin' = BuildCqmin(Qt, Vt, q)
                /\ dcap' = <<>>
                /\ h' = chk_begin(inst.n)
                /\ hs' = ChkList(inst.n, h')
                /\ Scur' = [k \in 0..((Len(hs') * inst.qmax) - 1) |-> 0]
                /\ x' = cw_begin(inst.n)
                /\ dmax' = DmaxAll(Qt, Vt, inst.n, q, x', inst.qmax, cqmin')
                /\ d' = delta_begin_all(inst.n)
                /\ pc' = "pair"
  /\ UNCHANGED <<fieldVars, inst, da, df, dd, dw, Sbest, earlyAbort,
                 xs, visited, nrec, full, complete, reported, ref, sieveVars>>

\* spectra.c lines 414-448: one turn of do ... while (delta_next(n, dmax, d))
\* (a read of V past its q*q cells is undefined: the run is taken to stop there)
VisitAll ==
  /\ pc = "pair"
  /\ IF \E i \in 0..(inst.n - 1) : (x[i] * gf_size) + d[i] >= gf_size * gf_size
       THEN /\ pc' = "fault"
            /\ UNCHANGED <<Scur, d>>
       ELSE LET y    == NeighbourAll(inst.n, x, d)
                quad == QuadAll(inst.n, x, y, 0)
                r    == delta_next_all(inst.n, dmax, d)
            IN  /\ Scur' = RecordAll(Scur, inst.n, hs, x, y, quad, inst.qmax)
                /\ d' = r.d
                /\ pc' = IF r.ok THEN "pair" ELSE "word"
  /\ UNCHANGED <<fieldVars, inst, tableVars, h, x, da, df, dd, dw, dmax, Sbest, earlyAbort,
                 histVars, sieveVars>>

\* spectra.c line 449 and lines 402-414: cw_next, dmax and delta_begin of the next vector
NextWordAll ==
  /\ pc = "word"
  /\ LET r == cw_next_all(inst.n, x)
     IN  /\ x' = r.x
         /\ IF r.ok
              THEN /\ dmax' = DmaxAll(Q, V, inst.n, gf_size, r.x, inst.qmax, cqmin)
                   /\ d' = delta_begin_all(inst.n)
                   /\ pc' = "pair"
              ELSE /\ pc' = "done"
                   /\ UNCHANGED <<d, dmax>>
  /\ UNCHANGED <<fieldVars, inst, tableVars, h, da, df, dd, dw, Scur, Sbest, earlyAbort,
                 histVars, sieveVars>>

SearchAll == TablesAll \/ VisitAll \/ NextWordAll

\* inputs of spectra.c
InputsAll ==
  {[prog |-> "spectra", n |-> n, qmax |-> qm, C |-> c, pi |-> mp] :
     n \in 1..2, qm \in 2..MaxQmax, c \in {SQ4, ASK4}, mp \in Maps4}

(***************************************************************************)
(* SpecEngines: the three programs, each run as it runs.                   *)
(***************************************************************************)

InitEngines == InitMain(SmallInputs \cup Inputs000 \cup InputsAll, TRUE)

NextEngines == Search \/ Search000 \/ SearchAll

SpecEngines == InitEngines /\ [][NextEngines]_vars

\* the neighbour of the codeword x at the ranks rr of its free coordinates: the last
\* coordinate is the one the parity h gives
NeighbourAt(rr) ==
  LET y0 == [i \in 0..(inst.n - 1) |-> IF i < inst.n - 1 THEN V[x[i]][rr[i]] ELSE gf_zero]
  IN  [y0 EXCEPT ![inst.n - 1] = CwLast(inst.n, h, y0, 0, gf_zero)]

\* the neighbour y of x that the program is about to evaluate: spectra.c takes all
\* its coordinates from the increments; part_001 (ranks da) and part_000 (increments
\* d) take the first n-1 from them and the last from the parity
VisitedNeighbour ==
  IF inst.prog = "spectra" THEN NeighbourAll(inst.n, x, d)
  ELSE NeighbourAt(IF inst.prog = "part_001" THEN da ELSE d)

\* the squared Euclidean distance between the points of x and of y, coordinate by
\* coordinate, from the constellation itself
RECURSIVE ExactQuadrance(_, _, _)
ExactQuadrance(xx, yy, i) ==
  IF i < inst.n
    THEN LET a  == inst.C[inst.pi[xx[i]]]
             b  == inst.C[inst.pi[yy[i]]]
         IN  ((a[1] - b[1]) * (a[1] - b[1])) + ((a[2] - b[2]) * (a[2] - b[2]))
               + ExactQuadrance(xx, yy, i + 1)
    ELSE 0

Visiting == pc \in {"visit", "delta000", "pair"}

C16_NeighbourRows ==
  V /= <<>> =>
    \A i \in 0..(gf_size - 1) :
      /\ {V[i][r] : r \in 0..(gf_size - 1)} = 0..(gf_size - 1)
      /\ \A r \in 0..(gf_size - 2) : Q[i][V[i][r]] <= Q[i][V[i][r + 1]]
      /\ V[i][0] = i

(***************************************************************************)
(* SpecRead: the three programs on inputs that the checks of main and of   *)
(* mapping_read refuse, and on some that they accept.                      *)
(***************************************************************************)

\* three points, and no point
TRI3 == Arr(<< <<0, 0>>, <<1, 0>>, <<0, 1>> >>)

NONE0 == Arr(<< >>)

\* a mapping of 4 elements with the value 4
Over4 == Arr(<<0, 1, 2, 4>>)

Progs == {"part_001", "part_000", "spectra"}

ReadInputs ==
       \* the number of points is not a power of two
       {[prog |-> pg, n |-> n, qmin |-> 1, qmax |-> 3, C |-> c, pi |-> Arr(<<0, 1, 2>>)] :
          pg \in Progs, n \in 1..2, c \in {TRI3, NONE0}}
       \* n is not smaller than q
  \cup {[prog |-> pg, n |-> n, qmin |-> 1, qmax |-> 3, C |-> SQ4, pi |-> mp] :
          pg \in Progs, n \in 4..5, mp \in {Arr(<<0, 1, 2, 3>>), Over4}}
       \* a value of the only mapping, or of the first one, is out of range; or none is
  \cup {[prog |-> pg, n |-> n, qmin |-> 1, qmax |-> qm, C |-> c, pi |-> mp] :
          pg \in Progs, n \in 1..2, qm \in 2..3, c \in {SQ4, ASK4},
          mp \in {Arr(<<0, 1, 2, 3>>), Over4}}
       \* part_000 with a file of two mappings
  \cup {[prog |-> "part_000", n |-> n, qmin |-> 1, qmax |-> 3, C |-> SQ4,
         pi |-> mp, rest |-> <<mq>>, nread |-> 0] :
          n \in 1..2, mp \in {Arr(<<0, 1, 2, 3>>), Over4},
          mq \in {Arr(<<2, 0, 3, 1>>), Over4}}

InitRead == InitMain(ReadInputs, TRUE)

\* the steps of the loops of part_000 and of spectra.c
Loops000 == BeginParity000 \/ Visit000 \/ NextCodeword000 \/ KeepBest000

LoopsAll == VisitAll \/ NextWordAll

\* each program is one sequential thread: the step that is enabled is taken
SpecRead ==
  /\ InitRead /\ [][NextEngines]_vars
  /\ WF_pc(SetupStep) /\ WF_vars(Loops \/ Loops000 \/ LoopsAll)

\* the number of points is not a power of two
BadSize == \A m \in 0..10 : Pow(2, m) /= Cardinality(Points)

\* n is not smaller than q
BadLength == inst.n >= Cardinality(Points)

\* some value of the mapping mp is not in [0, q)
OutOfRange(mp) == \E i \in DOMAIN mp : mp[i] >= Cardinality(Points)

\* some value of the mapping file, as far as it is not searched yet, is not in [0, q)
BadFile == OutOfRange(inst.pi) \/ \E k \in 1..Len(MoreMappings) : OutOfRange(MoreMappings[k])

FirstMapping == "nread" \in DOMAIN inst => inst.nread = 0

NothingEvaluated == hs = <<>> /\ reported = <<>> /\ full = <<>>

\* C17 (as stated): with a number of points that is not a power of two, or n not
\* smaller than q, or a mapping value outside [0, q), the run ends in the fatal error
\* before any parity is evaluated or reported, and in the first two cases before the
\* field tables are built
C17_ErrorBeforeAnyParity ==
  /\ []((BadSize \/ BadLength) =>
          pc \in {"start", "error"} /\ gf_size = 0 /\ gf_log = <<>> /\ NothingEvaluated)
  /\ [](BadFile => NothingEvaluated)
  /\ ((BadSize \/ BadLength \/ BadFile) ~> pc = "error")

\* C17 (amended): in the first two cases the run ends in the fatal error before the
\* field tables are built and before any parity is evaluated; with a mapping value
\* outside [0, q) it ends in the fatal error when that mapping is read, before any
\* parity is evaluated with it, and before any parity at all if it is the first
\* mapping of the file
C17_ErrorWhenMappingIsRead ==
  /\ []((BadSize \/ BadLength) =>
          pc \in {"start", "error"} /\ gf_size = 0 /\ gf_log = <<>> /\ NothingEvaluated)
  /\ [](OutOfRange(inst.pi) =>
          /\ pc \in {"start", "mapping", "error"}
          /\ FirstMapping => NothingEvaluated)
  /\ ((BadSize \/ BadLength \/ BadFile) ~> pc = "error")

\* part_000 has stopped on the second mapping of its file, after it has reported
\* parities for the first
C17_Witness ==
  /\ pc = "error" /\ inst.prog = "part_000" /\ inst.n = 2
  /\ "nread" \in DOMAIN inst /\ inst.nread = 1 /\ OutOfRange(inst.pi)
  /\ reported /= <<>>

(***************************************************************************)
(* SpecTrav: the neighbour loop of part_001 (lines 475-513) on its own,    *)
(* for one parity and one codeword, with tables of any content: dcap holds *)
(* any caps in the columns the codeword reads, V is the sorted table or    *)
(* the identity rows.  A cap above q acts as q, so caps range over 0..q.   *)
(***************************************************************************)

MaxTravN == 3

\* the identity in every row of V
PlainV(q) == [i \in 0..(q - 1) |-> [r \in 0..(q - 1) |-> r]]

\* tables dcap of any content in the columns of the free coordinates of xx, the only
\* ones the loop reads; the row of weight 0 is indexed only when the rank is 0, where
\* the test is decided before the cap is read
AnyDcap(n, q, xx) ==
  LET cols == {xx[i] : i \in 0..(n - 2)}
  IN  {[w \in 0..(n - 1) |-> [j \in 0..(q - 1) |->
          IF j \in cols /\ w > 0 THEN c[w][j] ELSE q]] :
         c \in [1..(n - 1) -> [cols -> 0..q]]}

InitTrav ==
  /\ pc = "visit"
  /\ FieldReady(2)
  /\ \E n \in 2..MaxTravN :
       /\ n < gf_size
       /\ inst = [prog |-> "part_001", n |-> n, qmax |-> 3, C |-> SQ4, pi |-> Arr(<<0, 1, 2, 3>>)]
       /\ \E hb \in {chk_begin(n)} : h \in {ChkList(n, hb)[k] : k \in 1..Len(ChkList(n, hb))}
       /\ \E x0 \in {[i \in 0..(n - 1) |-> 0], [i \in 0..(n - 1) |-> IF i = 1 THEN 1 ELSE 0]} :
            x = [x0 EXCEPT ![n - 1] = CwLast(n, h, x0, 0, gf_zero)]
       /\ Q = BuildQ(inst.C, inst.pi, gf_size)
       /\ V \in {BuildV(Q, gf_size), PlainV(gf_size)}
       /\ cqmin = BuildCqmin(Q, V, gf_size)
       /\ dcap \in AnyDcap(n, gf_size, x)
       /\ LET st == TravInit(n)
          IN  da = st.da /\ df = st.df /\ dd = st.dd /\ dw = st.dw
       /\ d = <<>> /\ dmax = <<>>
       /\ Scur = [i \in 0..(inst.qmax - 1) |-> 0]
       /\ Sbest = [i \in 0..(inst.qmax - 1) |-> UINT_MAX]
  /\ earlyAbort = TRUE
  /\ hs = <<h>> /\ xs = <<x>> /\ visited = {} /\ nrec = 0
  /\ full = <<>> /\ complete = FALSE /\ reported = <<>> /\ ref = <<>>
  /\ NoSieve

NextTrav == Visit

\* the loop is sequential code: its next turn is taken
SpecTrav == InitTrav /\ [][NextTrav]_vars /\ WF_vars(Visit)

\* C18: whatever the codeword, the parity and the content of the tables, the
\* neighbour loop terminates: the focus df[0] reaches n-1 and the loop is left
C18_TraversalEnds == (pc = "visit") ~> (pc = "cw_next")

\* the loop over a code of length 3 has ended under caps that are neither 0 nor q,
\* after more than two neighbours
C18_Witness ==
  /\ pc = "cw_next" /\ inst.n = 3
  /\ \E w \in 1..2 : dcap[w][x[0]] \in 1..(gf_size - 1)
  /\ Cardinality(visited) > 2

(***************************************************************************)
(* SpecTables: the set-up of part_001 up to its tables, for codes long     *)
(* enough to have a row of weight 3 and more in dcap.                      *)
(***************************************************************************)

MaxTabN == 5

MaxTabQmax == 20

TableInputs ==
       {[prog |-> "part_001", n |-> n, qmax |-> qm, C |-> QAM8, pi |-> Id8] :
          n \in 2..MaxTabN, qm \in 0..MaxTabQmax}
  \cup {[prog |-> "part_001", n |-> n, qmax |-> qm, C |-> c, pi |-> mp] :
          n \in 1..3, qm \in 0..MaxQmax, c \in {SQ4, ASK4}, mp \in Maps4}

InitTables == InitMain(TableInputs, TRUE)

NextTables == BuildField \/ BuildTables

SpecTables == InitTables /\ [][NextTables]_vars

\* the smallest element of a set of numbers
Least(S) == CHOOSE v \in S : \A u \in S : v <= u

\* the smallest rank whose quadrance from j is above the budget b, or q
FirstAbove(j, b) ==
  Least({r \in 0..(gf_size - 1) : Q[j][V[j][r]] > b} \cup {gf_size})

\* C19 (as stated): dcap[w][j] is the smallest rank d with
\* Q[j][V[j][d]] > qmax - (w-1)*cqmin, or q when there is none, and cqmin is the
\* smallest non-zero quadrance of the table
C19_CapFromBudget ==
  dcap /= <<>> =>
    /\ cqmin = Least({Q[i][j] : i, j \in 0..(gf_size - 1)} \ {0})
    /\ \A w \in 0..(inst.n - 1) : \A j \in 0..(gf_size - 1) :
         dcap[w][j] = FirstAbove(j, inst.qmax - ((w - 1) * cqmin))

\* C19 (amended): dcap[w][j] is the smallest rank d with
\* Q[j][V[j][d]] > qmax - k*cqmin, or q when there is none, where k is w-1 for w > 2
\* and 1 for w <= 2, and where the difference is unsigned: when k*cqmin exceeds qmax
\* it wraps above every quadrance and dcap[w][j] is q; cqmin is the smallest of
\* Q[0][1] and of the quadrances Q[i][V[i][1]] at rank 1 of the rows i >= 1
C19_CapFromUnsignedBudget ==
  dcap /= <<>> =>
    /\ cqmin = Least({Q[0][1]} \cup {Q[i][V[i][1]] : i \in 1..(gf_size - 1)})
    /\ \A w \in 0..(inst.n - 1) : \A j \in 0..(gf_size - 1) :
         LET k == IF w > 2 THEN w - 1 ELSE 1
         IN  dcap[w][j] = IF k * cqmin > inst.qmax THEN gf_size
                          ELSE FirstAbove(j, inst.qmax - (k * cqmin))

\* the tables of a code of length 4 and more over the 8-QAM: the cap of weight 3 is
\* below the cap of weight 1, which is a cap (below q), and at weight 4 the budget
\* has wrapped
C19_Witness ==
  /\ dcap /= <<>> /\ inst.n >= 5
  /\ dcap[3][0] < dcap[1][0] /\ dcap[1][0] < gf_size
  /\ 3 * cqmin > inst.qmax /\ dcap[4][0] = gf_size

\* the number of free coordinates of the rank vector rr that are not at rank 0
WeightOf(rr) == Cardinality({j \in DOMAIN rr : rr[j] > 0})

\* the rank vectors of the coordinates i..n-2 of x whose quadrances add up to less
\* than left, as sequences.  A rank vector whose free coordinates alone reach qmax has
\* a total of qmax or more: the vectors with a total below qmax are among these.
RECURSIVE Affordable(_, _)
Affordable(i, left) ==
  IF i = inst.n - 1 THEN {<<>>}
  ELSE UNION {{<<r>> \o t : t \in Affordable(i + 1, left - Q[x[i]][V[x[i]][r]])} :
                r \in {r \in 0..(gf_size - 1) : Q[x[i]][V[x[i]][r]] < left}}

\* C20: in part_001, for the parity h and the codeword x the search is at, every rank
\* vector r of the free coordinates whose neighbour is at an exact total quadrance
\* below qmax has each of its non-zero ranks below the cap of its own weight:
\* r[j] < dcap[w][x[j]] with w the number of non-zero ranks of r
C20_CapsKeepRecordable ==
  (pc = "visit" /\ visited = {}) =>
    \A r \in {Arr(s) : s \in Affordable(0, inst.qmax)} :
      ExactQuadrance(x, NeighbourAt(r), 0) < inst.qmax =>
        \A j \in DOMAIN r : r[j] > 0 => r[j] < dcap[WeightOf(r)][x[j]]

\* a codeword of a code of length 4 has a neighbour that is recorded, with two
\* non-zero ranks, one of them the last rank below its cap
C20_Witness ==
  /\ pc = "visit" /\ visited = {} /\ inst.n = 4
  /\ \E r \in {Arr(s) : s \in Affordable(0, inst.qmax)} :
       /\ WeightOf(r) = 2
       /\ ExactQuadrance(x, NeighbourAt(r), 0) < inst.qmax
       /\ \E j \in DOMAIN r : r[j] > 0 /\ r[j] + 1 = dcap[2][x[j]]

\* C21: at every visit of the traversal of part_001 each rank da[j] is in 0..q-1, each
\* direction dd[j] is +1 or -1 and is -1 only at a rank of 1 or more, the weight dw is
\* the number of free coordinates of non-zero rank (so dw is in 0..n-1 and the cells
\* dcap[dw*q + x[j]] and V[x[j]*q + da[j]] exist), and a step from one visit to the
\* next changes exactly one rank, by exactly one
C21_RanksInRange ==
  /\ [](pc = "visit" =>
          /\ \A j \in 0..(inst.n - 2) :
               /\ da[j] \in 0..(gf_size - 1)
               /\ dd[j] \in {1, -1}
               /\ dd[j] = -1 => da[j] >= 1
               /\ x[j] \in DOMAIN V /\ da[j] \in DOMAIN V[x[j]]
               /\ dw \in DOMAIN dcap /\ x[j] \in DOMAIN dcap[dw]
          /\ dw = WeightOf(da)
          /\ dw \in 0..(inst.n - 1))
  /\ [][(pc = "visit" /\ pc' = "visit") =>
          \E j \in 0..(inst.n - 2) :
            /\ da'[j] - da[j] \in {1, -1}
            /\ \A k \in 0..(inst.n - 2) : k /= j => da'[k] = da[k]]_vars

\* a visit of a code of length 3 with both ranks non-zero, one of them going down from
\* rank 2 or more
C21_Witness ==
  /\ pc = "visit" /\ inst.n = 3 /\ dw = 2
  /\ \E j \in 0..1 : dd[j] = -1 /\ da[j] >= 2

(***************************************************************************)
(* SpecSeeds: the set-up of the three programs up to their tables, for     *)
(* quadrance bounds below and above the smallest quadrance.                *)
(***************************************************************************)

SeedInputs ==
       {[prog |-> pg, n |-> n, qmin |-> 1, qmax |-> qm, C |-> c, pi |-> mp] :
          pg \in Progs, n \in 1..2, qm \in 0..MaxQmax, c \in {SQ4, ASK4}, mp \in Maps4}
  \cup {[prog |-> pg, n |-> 2, qmin |-> 1, qmax |-> qm, C |-> QAM8, pi |-> Id8] :
          pg \in Progs, qm \in 0..MaxQmax}

InitSeeds == InitMain(SeedInputs, TRUE)

NextSeeds == BuildField \/ BuildTables \/ Tables000 \/ TablesAll

SpecSeeds == InitSeeds /\ [][NextSeeds]_vars

\* the mapping is a permutation of the elements and the points are pairwise distinct
DistinctPoints ==
  /\ {inst.pi[i] : i \in DOMAIN inst.pi} = DOMAIN inst.C
  /\ \A i, j \in DOMAIN inst.C : i /= j => inst.C[i] /= inst.C[j]

\* the smallest quadrance between two distinct elements
MinQuadrance ==
  Least({Q[p[1]][p[2]] :
           p \in {p \in (0..(gf_size - 1)) \X (0..(gf_size - 1)) : p[1] /= p[2]}})

\* C22 as stated: in each of the three programs, for a permutation mapping of pairwise
\* distinct points and every qmax, the value that seeds the cutoffs (cqmin, qmin of
\* spectra.c) is the smallest Q[i][j] over the pairs i /= j
C22_SeedIsMinimum ==
  (Q /= <<>> /\ DistinctPoints) =>
    cqmin = MinQuadrance

\* C22: in part_001 and in spectra.c, for a permutation mapping of pairwise distinct
\* points and every qmax, the seed of the cutoffs is the smallest Q[i][j] over the
\* pairs i /= j; in part_000 it is the smaller of that quadrance and qmax
C22_SeedIsMinimumUpToQmax ==
  (Q /= <<>> /\ DistinctPoints) =>
    cqmin = IF inst.prog = "part_000" /\ inst.qmax < MinQuadrance
              THEN inst.qmax ELSE MinQuadrance

\* the tables of part_000 for a bound below the smallest quadrance, with the elements
\* 0 and 1 at the smallest quadrance
C22_Witness ==
  /\ Q /= <<>> /\ DistinctPoints
  /\ inst.prog = "part_000" /\ 0 < inst.qmax /\ inst.qmax < MinQuadrance
  /\ Q[0][1] = MinQuadrance /\ cqmin = inst.qmax

\* C23: every read or write of a spectrum array is at an index below the number of
\* entries allocated for it, whatever qmin and qmax are: the store Sbest[qmin-1] of
\* part_000 is inside the qmax+1 entries of Sbest, and the quadrance a visit records
\* is an index of Scur
C23_SpectrumIndexInside ==
  /\ [][(pc = "mapping" /\ inst.prog = "part_000" /\ pc' /= pc
           /\ \A i \in DOMAIN inst.pi : inst.pi[i] < gf_size) =>
          SbestIndex000(inst.qmin) < inst.qmax + 1]_vars
  /\ []((pc = "visit" /\ Quadrance(inst.n, h, x, da) < inst.qmax) =>
          Quadrance(inst.n, h, x, da) \in DOMAIN Scur)
  /\ []((pc = "delta000" /\ Quadrance(inst.n, h, x, d) <= inst.qmax) =>
          Quadrance(inst.n, h, x, d) \in DOMAIN Scur)

(***************************************************************************)
(* SpecSizes: the constellation read and the field construction for        *)
(* constellations of 0 to 2^MaxSizeM points and code lengths from 0.       *)
(***************************************************************************)

MaxSizeM == 11

\* k points on a line
Line(k) == [i \in 0..(k - 1) |-> <<i, 0>>]

SizeInputs ==
  {[prog |-> pg, n |-> n, qmin |-> 1, qmax |-> qm, C |-> Line(k), pi |-> Arr(<<0, 1>>)] :
     pg \in Progs, n \in 0..2, qm \in 0..MaxQmax,
     k \in 0..5 \cup {8, Pow(2, MaxSizeM)}}

InitSizes == InitMain(SizeInputs, TRUE)

NextSizes == BuildField

SpecSizes == InitSizes /\ [][NextSizes]_vars

\* the number of points is 2^m with m outside 1..n_primitives
UnsupportedSize ==
  \E m \in {0} \cup (n_primitives + 1)..MaxSizeM : Cardinality(Points) = Pow(2, m)

\* C24: a constellation of 2^m points with m outside 1..10 (m = 0, m >= 11) never
\* reaches the field construction: the run ends in the fatal error, no field is built
C24_UnsupportedSizeIsError ==
  [][(pc = "start" /\ UnsupportedSize) => (pc' = "error" /\ gf_size' = 0)]_vars

\* C25: in part_000 the best parity H printed at the end of a mapping (lines 610-612)
\* is a parity that was accepted under that mapping, so that the final S and H of a
\* mapping depend on that mapping and the configuration only: when the run of a file
\* of one mapping (a permutation of distinct points, 1 <= qmin <= qmax) ends, Hbest
\* has been written by an acceptance (lines 599-601)
C25_FinalParityAccepted ==
  (/\ pc = "done" /\ inst.prog = "part_000"
   /\ MoreMappings = <<>> /\ ("nread" \in DOMAIN inst => inst.nread = 0)
   /\ DistinctPoints /\ inst.qmin >= 1 /\ inst.qmin <= inst.qmax) =>
    reported /= <<>>

\* C26: in part_001 and part_000 a parity becomes the new best (Sbest overwritten, the
\* parity reported) only after all q^(n-1) codewords of its coset have been traversed;
\* when the codeword loop was left early on sp_cmp(Sbest, Scur) > 0 the parity is
\* rejected, and Sbest and the best parity stay as they were
C26_BestOnlyAfterWholeCoset ==
  [][(pc \in {"keep", "keep000"}) =>
       /\ (reported' /= reported \/ Sbest' /= Sbest) =>
            /\ complete
            /\ Len(xs) = Pow(gf_size, inst.n - 1)
            /\ \A i \in 1..Len(xs) : \A j \in 1..Len(xs) : i /= j => xs[i] /= xs[j]
       /\ ~complete => (Sbest' = Sbest /\ reported' = reported)]_vars

\* a parity whose codeword loop was left early, after an earlier parity was accepted
C26_Witness ==
  /\ pc \in {"keep", "keep000"} /\ ~complete
  /\ reported /= <<>>
  /\ Len(xs) < Pow(gf_size, inst.n - 1)

\* the number of ways to choose b elements among a
RECURSIVE Binomial(_, _)
Binomial(a, b) ==
  IF b = 0 THEN 1 ELSE IF a < b THEN 0 ELSE Binomial(a - 1, b - 1) + Binomial(a - 1, b)

\* the indices of h that the scan of chk_next reads, from index i on
RECURSIVE ScanReads(_, _, _)
ScanReads(n, hh, i) ==
  {i} \cup IF i \in DOMAIN hh /\ hh[i] >= gf_size_minus_1 - i - 1 /\ ~(i + 3 > n)
             THEN ScanReads(n, hh, i + 1) ELSE {}

OdoInputs ==
  {[prog |-> "spectra", n |-> n, qmax |-> qm, C |-> c, pi |-> mp] :
     n \in 1..2, qm \in 0..MaxQmax, c \in {SQ4, ASK4}, mp \in Maps4}

InitOdo == InitMain(OdoInputs, TRUE)

NextOdo == BuildField \/ SearchAll

\* the program is one sequential thread: the step that is enabled is taken
SpecOdo == InitOdo /\ [][NextOdo]_vars /\ WF_pc(SetupStep) /\ WF_vars(LoopsAll)

\* C29: in spectra.c, for a permutation mapping of distinct points, every qmax (the
\* smallest quadrance qmin included) and every vector x, the ranks that delta_begin
\* and delta_next produce are below q, so that every read V[x[i]*q + d[i]] is inside
\* the table, and the odometer returns false after finitely many steps
C29_RanksBelowQ ==
  /\ []((pc = "pair" /\ DistinctPoints) =>
          \A i \in 0..(inst.n - 1) :
            d[i] < gf_size /\ (x[i] * gf_size) + d[i] < gf_size * gf_size)
  /\ []((pc = "pair" /\ DistinctPoints) => <>(pc \in {"word", "done"}))

(***************************************************************************)
(* The sieve (crible.c): the multiplicity of one quadrance quad, found by  *)
(* the partitions of quad over the coordinates and the circles of the      *)
(* elements.                                                               *)
(***************************************************************************)

\* int tmp = p[i]; p[i] = p[j]; p[j] = tmp;
Swap(p, i, j) == [p EXCEPT ![i] = p[j], ![j] = p[i]]

\* for (; i < j; i++, j--) swap(p[i], p[j])
RECURSIVE Reverse(_, _, _)
Reverse(p, i, j) == IF i < j THEN Reverse(Swap(p, i, j), i + 1, j - 1) ELSE p

\* for (k = n-1; k >= 0 && p[k] <= 1; --k) rem += p[k];
RECURSIVE PartScan(_, _, _)
PartScan(p, k, rem) ==
  IF k >= 0 /\ p[k] <= 1 THEN PartScan(p, k - 1, rem + p[k]) ELSE [k |-> k, rem |-> rem]

\* for (; rem > p[k]; k++) { p[k+1] = p[k]; rem -= p[k]; }
RECURSIVE PartSpread(_, _, _)
PartSpread(p, k, rem) ==
  IF rem > p[k]
    THEN PartSpread(Store(p, k + 1, p[k]), k + 1, rem - p[k])
    ELSE [p |-> p, k |-> k, rem |-> rem]

\* static int partnext(int n, int *p): a write at an index from n on is kept as a
\* cell of that index
partnext(n, p) ==
  LET s == PartScan(p, n - 1, 0)
  IN  IF s.k < 0 THEN [ok |-> FALSE, p |-> p]
      ELSE LET t == PartSpread([p EXCEPT ![s.k] = p[s.k] - 1], s.k, s.rem + 1)
           IN  [ok |-> t.k + 2 < n, p |-> Store(t.p, t.k + 1, t.rem)]

\* for (j = n-2; j >= 0; --j) if (p[j] < p[j+1]) break;
RECURSIVE PermDescent(_, _)
PermDescent(p, j) == IF j >= 0 /\ ~(p[j] < p[j + 1]) THEN PermDescent(p, j - 1) ELSE j

\* for (k = n-1; k > j; --k) if (p[k] > p[j]) break;
RECURSIVE PermPivot(_, _, _)
PermPivot(p, j, k) == IF k > j /\ ~(p[k] > p[j]) THEN PermPivot(p, j, k - 1) ELSE k

\* static int permnext(int n, int *p)
permnext(n, p) ==
  LET j == PermDescent(p, n - 2)
  IN  IF j < 0 THEN [ok |-> FALSE, p |-> p]
      ELSE [ok |-> TRUE, p |-> Reverse(Swap(p, j, PermPivot(p, j, n - 1)), j + 1, n - 1)]

\* for (i < n) for (j = i+1; j < n) if (h[i] < h[j]) swap(h[i], h[j])
RECURSIVE SortDown(_, _, _, _)
SortDown(hh, n, i, j) ==
  IF i >= n THEN hh
  ELSE IF j >= n THEN SortDown(hh, n, i + 1, i + 2)
  ELSE SortDown(IF hh[i] < hh[j] THEN Swap(hh, i, j) ELSE hh, n, i, j + 1)

\* static int readparity(FILE *f, int n, gf_elt *h) on a line of n values
readparity(n, line) ==
  LET s == SortDown(line, n, 0, 1)
  IN  [i \in 0..(n - 1) |-> s[i] - s[n - 1]]

\* the elements y, in the order of the loop, with quadrances[x*q + y] = r
RECURSIVE CircleOf(_, _, _, _)
CircleOf(Qt, xv, r, y) ==
  IF y = 0 THEN <<>>
  ELSE LET c == CircleOf(Qt, xv, r, y - 1)
       IN  IF Qt[xv][y - 1] = r THEN Append(c, y - 1) ELSE c

\* cercles[i][perims[i]++] = y for i = r*q + x, r <= quad
BuildCercles(Qt, q, quad) ==
  [i \in 0..((q * (1 + quad)) - 1) |-> Arr(CircleOf(Qt, i % q, i \div q, q))]

BuildPerims(Qt, q, quad) ==
  [i \in 0..((q * (1 + quad)) - 1) |-> Len(CircleOf(Qt, i % q, i \div q, q))]

\* the cells of a circle of k elements: malloc(8 ...), doubled when k reaches a
\* power of two from 8 on
RECURSIVE CircleRoom(_, _)
CircleRoom(k, room) == IF room <= k THEN CircleRoom(k, 2 * room) ELSE room

\* the circle of coordinate i: x[i] + q * part[i]
CircleAt(i) == x[i] + (gf_size * part[i])

\* what cercles[...][idx[i]] gives: the element written there, or the content of a
\* cell of the allocation that was never written
CellAt(i) ==
  IF idx[i] < perims[CircleAt(i)]
    THEN {cercles[CircleAt(i)][idx[i]]}
    ELSE Indeterminate

\* for (i = 0; i < n-1 && ++idx[i] == perims[x[i] + q * part[i]]; ++i) idx[i] = 0;
RECURSIVE IdxCarry(_, _, _)
IdxCarry(n, ix, i) ==
  IF i < n - 1
    THEN IF ix[i] + 1 = perims[CircleAt(i)]
           THEN IdxCarry(n, [ix EXCEPT ![i] = 0], i + 1)
           ELSE [i |-> i, idx |-> [ix EXCEPT ![i] = ix[i] + 1]]
    ELSE [i |-> i, idx |-> ix]

ZeroWord(len) == [i \in 0..(len - 1) |-> 0]

\* lines 306-357: the mapping and its check, the quadrances, the circles
Cercles ==
  /\ pc = "mapping"
  /\ inst.prog = "crible"
  /\ LET q == gf_size
         Qt == BuildQ(inst.C, inst.pi, q)
     IN  IF \E i \in 0..(q - 1) : inst.pi[i] >= q
           THEN /\ pc' = "error"
                /\ UNCHANGED <<Q, cercles, perims, bestmult>>
           ELSE /\ Q' = Qt
                /\ cercles' = BuildCercles(Qt, q, inst.quad)
                /\ perims' = BuildPerims(Qt, q, inst.quad)
                /\ bestmult' = UINT_MAX
                /\ pc' = "readparity"
  /\ UNCHANGED <<fieldVars, inst, V, cqmin, dcap, h, x, travVars, Scur, Sbest,
                 earlyAbort, histVars, part, idx, mult, parts>>

\* lines 388-400: while (readparity(f, n, h)), the first partition
ReadParity ==
  /\ pc = "readparity"
  /\ IF Len(hs) = Len(inst.hfile)
       THEN /\ pc' = "done"
            /\ UNCHANGED <<h, hs, part, mult, parts>>
       ELSE /\ h' = readparity(inst.n, inst.hfile[Len(hs) + 1])
            /\ hs' = Append(hs, h')
            /\ mult' = 0
            /\ part' = Store(Store(ZeroWord(inst.n), 0, inst.quad - 1), 1, 1)
            /\ parts' = <<>>
            /\ pc' = "partition"
  /\ UNCHANGED <<fieldVars, inst, tableVars, x, travVars, Scur, Sbest, earlyAbort,
                 xs, visited, nrec, full, complete, reported, ref,
                 cercles, perims, idx, bestmult>>

\* lines 402-420: the partition is reversed, its first permutation is taken, the
\* first codeword and the first indices are set
Partition ==
  /\ pc = "partition"
  /\ part' = Reverse(part, 0, inst.n - 1)
  /\ parts' = Append(parts, part')
  /\ x' = ZeroWord(inst.n)
  /\ idx' = ZeroWord(inst.n - 1)
  /\ pc' = "idx"
  /\ UNCHANGED <<fieldVars, inst, tableVars, h, travVars, Scur, Sbest, earlyAbort,
                 histVars, cercles, perims, mult, bestmult>>

\* lines 421-445: one turn of for (;;): the word y of the circles, the count, the
\* next indices.  A circle outside the table or an index outside the cells of the
\* circle is a read outside the allocation, where the run is not followed further
Odometer ==
  /\ pc = "idx"
  /\ LET n == inst.n
     IN  IF \E i \in 0..(n - 2) :
               \/ CircleAt(i) \notin DOMAIN cercles
               \/ idx[i] >= CircleRoom(perims[CircleAt(i)], 8)
           THEN /\ pc' = "fault"
                /\ UNCHANGED <<idx, mult>>
           ELSE \E ys \in [0..(n - 2) -> 0..(gf_size - 1)] :
                  /\ \A i \in 0..(n - 2) : ys[i] \in CellAt(i)
                  /\ LET y    == CwLast(n, h, ys, 0, gf_zero)
                         hit  == Q[x[n - 1]][y] = part[n - 1]
                         r    == IdxCarry(n, idx, 0)
                     IN  IF hit /\ mult + 1 > bestmult
                           THEN /\ mult' = mult + 1
                                /\ pc' = "nexth"
                                /\ UNCHANGED idx
                           ELSE /\ mult' = IF hit THEN mult + 1 ELSE mult
                                /\ idx' = r.idx
                                /\ pc' = IF r.i = n - 1 THEN "cwnext" ELSE "idx"
  /\ UNCHANGED <<fieldVars, inst, tableVars, h, x, travVars, Scur, Sbest, earlyAbort,
                 histVars, cercles, perims, part, bestmult, parts>>

\* line 446: while (cwnext(n, h, x)), the indices set again
NextWord ==
  /\ pc = "cwnext"
  /\ LET r == cw_next(inst.n, h, x)
     IN  /\ x' = r.x
         /\ idx' = IF r.ok THEN ZeroWord(inst.n - 1) ELSE idx
         /\ pc' = IF r.ok THEN "idx" ELSE "permnext"
  /\ UNCHANGED <<fieldVars, inst, tableVars, h, travVars, Scur, Sbest, earlyAbort,
                 histVars, cercles, perims, part, mult, bestmult, parts>>

\* line 447: while (permnext(n, part)), the first codeword set again
NextPermutation ==
  /\ pc = "permnext"
  /\ LET r == permnext(inst.n, part)
     IN  /\ part' = r.p
         /\ parts' = IF r.ok THEN Append(parts, r.p) ELSE parts
         /\ x' = IF r.ok THEN ZeroWord(inst.n) ELSE x
         /\ idx' = IF r.ok THEN ZeroWord(inst.n - 1) ELSE idx
         /\ pc' = IF r.ok THEN "idx" ELSE "partnext"
  /\ UNCHANGED <<fieldVars, inst, tableVars, h, travVars, Scur, Sbest, earlyAbort,
                 histVars, cercles, perims, mult, bestmult>>

\* line 448: while (partnext(n, part)).  A write of partnext after the n cells of
\* part is a write outside the allocation: the run goes on or it does not
NextPartition ==
  /\ pc = "partnext"
  /\ LET r == partnext(inst.n, part)
     IN  /\ part' = r.p
         /\ IF DOMAIN r.p \subseteq 0..(inst.n - 1)
              THEN pc' = IF r.ok THEN "partition" ELSE "nexth"
              ELSE pc' \in {IF r.ok THEN "partition" ELSE "nexth", "fault"}
  /\ UNCHANGED <<fieldVars, inst, tableVars, h, x, travVars, Scur, Sbest, earlyAbort,
                 histVars, cercles, perims, idx, mult, bestmult, parts>>

\* lines 450-456: nexth, the parity kept and printed when it is no worse
KeepMult ==
  /\ pc = "nexth"
  /\ bestmult' = IF mult <= bestmult THEN mult ELSE bestmult
  /\ reported' = IF mult <= bestmult THEN Append(reported, h) ELSE reported
  /\ pc' = "readparity"
  /\ UNCHANGED <<fieldVars, inst, tableVars, h, x, travVars, Scur, Sbest, earlyAbort,
                 hs, xs, visited, nrec, full, complete, ref,
                 cercles, perims, part, idx, mult, parts>>

Sieve ==
  \/ Cercles \/ ReadParity \/ Partition \/ Odometer
  \/ NextWord \/ NextPermutation \/ NextPartition \/ KeepMult

MaxQuad == 6

\* parity files of one and of two lines
Files(n) ==
  IF n = 2 THEN {<<Arr(<<1, 0>>)>>, <<Arr(<<0, 0>>), Arr(<<1, 2>>)>>}
  ELSE {<<Arr(<<2, 1, 0>>)>>, <<Arr(<<1, 3, 1>>), Arr(<<0, 0, 0>>)>>}

\* inputs of crible.c: codelength quad constellation mappings parities
SieveInputs ==
  {[prog |-> "crible", n |-> n, quad |-> qd, C |-> c, pi |-> mp, hfile |-> f] :
     n \in 2..3, qd \in 1..MaxQuad, c \in {SQ4, ASK4}, mp \in Maps4, f \in Files(2) \cup Files(3)}

InitSieve == InitMain({i \in SieveInputs : i.hfile \in Files(i.n)}, TRUE)

NextSieve == BuildField \/ Sieve

\* the program is one sequential thread: the step that is enabled is taken
SpecSieve == InitSieve /\ [][NextSieve]_vars /\ WF_vars(NextSieve)

\* entries non-negative and summing to quad, in the n cells of part
IsPartition(p) ==
  /\ DOMAIN p = 0..(inst.n - 1)
  /\ \A i \in DOMAIN p : p[i] >= 0
  /\ SumTo(p, inst.n) = inst.quad

\* the partitions of quad into 2..n positive parts, padded with zeros, in all their
\* distinct orders: the vectors of n non-negative entries of sum quad with two
\* positive entries or more
PartitionVectors ==
  {p \in [0..(inst.n - 1) -> 0..inst.quad] :
     /\ SumTo(p, inst.n) = inst.quad
     /\ Cardinality({i \in DOMAIN p : p[i] > 0}) >= 2}

\* C28: in crible.c every vector part the partition loop evaluates is a partition of
\* quad, every partition of quad into 2 to n positive parts is evaluated exactly once
\* per parity in each of its distinct orders, and partnext writes no cell of part
\* from index n on
C28_PartitionsEnumerated ==
  (inst.prog = "crible" /\ DistinctPoints) =>
    /\ \A k \in 1..Len(parts) : IsPartition(parts[k])
    /\ (pc = "nexth" /\ Len(hs) = 1) =>
         \A p \in PartitionVectors :
           Cardinality({k \in 1..Len(parts) : parts[k] = p}) = 1
    /\ DOMAIN part \subseteq 0..(inst.n - 1)

\* C30: in crible.c, for every codeword and every order of every partition, the
\* odometer reads the circle of coordinate i only at an index below the number of
\* elements of that circle, never from a circle without element, and the odometer
\* is left after finitely many turns for every codeword
C30_ReadsInsideCircles ==
  /\ []((inst.prog = "crible" /\ DistinctPoints /\ pc = "idx") =>
          \A i \in 0..(inst.n - 2) :
            /\ CircleAt(i) \in DOMAIN perims
            /\ idx[i] < perims[CircleAt(i)])
  /\ []((inst.prog = "crible" /\ DistinctPoints /\ pc = "idx") =>
          <>(pc \in {"cwnext", "nexth"}))

====
